---------------------------- MODULE Spec2Model ----------------------------
(***************************************************************************)
(* Code Cropper: the call-graph model (call_graph.py), the JSON serializer *)
(* (serialization.py) and the capture pipeline (annotator.py).             *)
(*                                                                         *)
(* Three specifications share the definitions of this module:              *)
(*   SpecCG     a ProgramExecution built by hand through the call_graph    *)
(*              API, then dumped and loaded;                               *)
(*   Spec       a capture session: wrapped functions enqueue events, the   *)
(*              AnnotatorThread drains the queue, the caller ends the      *)
(*              session and dumps the graph;                               *)
(*   SpecEvents Spec plus callers that use the public                      *)
(*              Annotator.functionEnded directly.                          *)
(***************************************************************************)
EXTENDS Integers, Sequences, FiniteSets, TLC

VARIABLES
    \* ---- call_graph API driven by hand (SpecCG)
    cgPE,           \* the ProgramExecution under construction
    cgOp,           \* the last operation with its inputs
    cgRes,          \* its outcome: "ok" or the exception's class name
    cgLoaded,       \* the ProgramExecution load returned, when the last operation is a load
    \* ---- capture sessions (Spec, SpecEvents)
    annotator,        \* the Annotator singleton, with its queue, graph and AnnotatorThread
    activeAnnotators, \* the class attribute Annotator.activeAnnotators
    installed,        \* the functions currently replaced by their wrapper (setattr)
    callerPc,         \* where the caller thread is: idle, active, joining, dumping
    stacks,           \* per producer thread, the annotated calls in flight (innermost last)
    dumpFile,         \* what the last dump wrote: its outcome and the document
    counters,         \* history: calls made, resets, startAnnotations calls, direct API calls,
                      \* sessions started and not finished, startAnnotations calls that raised
    \* ---- code generation (SpecGen)
    gen,              \* the generation in progress: the position in
                      \* generateEquivalentProgram, its locals and what it wrote to fp
    \* ---- registrations followed one by one (SpecAnnotate)
    reg               \* funcsToAnnotate as the list it is, oldFuncs, what each function
                      \* name is bound to, the queue and the thread of the Annotator

cgVars == <<cgPE, cgOp, cgRes, cgLoaded>>

capVars == <<annotator, activeAnnotators, installed, callerPc, stacks, dumpFile, counters>>

(***************************************************************************)
(* call_graph.py                                                           *)
(***************************************************************************)
\* LanguageType: NONE, MODULE, CLASS, INSTANCE = range(4)
LT_NONE == 0
LT_MODULE == 1
LT_CLASS == 2
LT_INSTANCE == 3

LanguageTypes == <<LT_NONE, LT_MODULE, LT_CLASS, LT_INSTANCE>>

\* LanguageType.asString
asString(lt) ==
    CASE lt = LT_NONE -> "None"
      [] lt = LT_MODULE -> "Module"
      [] lt = LT_CLASS -> "Class"
      [] lt = LT_INSTANCE -> "Instance"
      [] OTHER -> "KeyError"

\* LanguageObject.DECLARATION_TYPES
DT_CONSTRUCTOR == "CONSTRUCTOR"
DT_FIXED_VALUE == "FIXED_VALUE"
DT_DUMMY == "DUMMY"
DT_NULL == "NULL"

\* FunctionCall.MethodType
MT_CLASS_METHOD == "class method"
MT_STATIC_METHOD == "static method"
MT_PROPERTY == "property"
MT_CONSTRUCTOR == "constructor"
MT_DESTRUCTOR == "destructor"
MT_METHOD == "method"

\* ProgramExecution.MIN_LEVEL
MIN_LEVEL == 0

\* ProgramExecution.Languages
PYTHON == "Python"
C_PLUS_PLUS == "C++"

\* Python's None where a LanguageObject is expected (a parent, a returned object)
NoneObj == [id |-> 0]

\* Python's None where a string is expected (an Argument's name)
NoneName == "<None>"

\* Mutant of isValidParent: accepts a parent of any lower rank.
isValidParentAnyLower(parentLanguageType, childLanguageType) ==
    parentLanguageType < childLanguageType

\* LanguageType.isValidParent (a child of type NONE trips its assert, see LanguageObjectInit)
isValidParent(parentLanguageType, childLanguageType) ==
    \/ (parentLanguageType = LT_NONE /\ childLanguageType = LT_MODULE)
    \/ parentLanguageType = childLanguageType - 1

\* LanguageObject.__init__: the new object, or the exception it raises
LanguageObjectInit(id, languageType, declarationType, declarationCode, parent) ==
    LET parentLanguageType ==
            IF parent # NoneObj THEN parent.languageType ELSE LT_NONE
    IN  IF ~(id > 0) THEN [exc |-> "AssertionError"]
        ELSE IF languageType = LT_NONE THEN [exc |-> "AssertionError"]
        ELSE IF ~isValidParent(parentLanguageType, languageType)
             THEN [exc |-> "InvalidParentException"]
        ELSE [exc |-> "ok",
              obj |-> [id |-> id, languageType |-> languageType,
                       declarationType |-> declarationType,
                       declarationCode |-> declarationCode,
                       parent |-> parent]]

\* Argument.__init__
Argument(aLanguageObject, name) ==
    [languageObject |-> aLanguageObject, name |-> name]

\* FunctionCall.__init__
FunctionCall(id, callee, functionName, methodType, argsList, level, returnedObject, threwException) ==
    [id |-> id, callee |-> callee, functionName |-> functionName,
     methodType |-> methodType, argsList |-> argsList, level |-> level,
     returnedObject |-> returnedObject, threwException |-> threwException]

\* ProgramExecution.__init__: languageObjects_ is a dict (id -> object),
\* functionCalls_ a list
ProgramExecution(language) ==
    [language |-> language, languageTypes |-> LanguageTypes,
     languageObjects |-> <<>>, functionCalls |-> <<>>]

\* dict.has_key
has_key(d, k) == k \in DOMAIN d

\* d[k] = v on a dict
dictSet(d, k, v) == [x \in (DOMAIN d) \cup {k} |-> IF x = k THEN v ELSE d[x]]

\* Mutant of addLanguageObject: the duplicate check is missing, the entry is overwritten.
addLanguageObjectOverwrite(pe, aLanguageObject) ==
    [exc |-> "ok",
     pe |-> [pe EXCEPT !.languageObjects =
                dictSet(pe.languageObjects, aLanguageObject.id, aLanguageObject)]]

\* ProgramExecution.addLanguageObject: the new ProgramExecution, or the exception
addLanguageObject(pe, aLanguageObject) ==
    LET id == aLanguageObject.id
        parent == aLanguageObject.parent
    IN  IF has_key(pe.languageObjects, id)
        THEN [exc |-> "DuplicatedLanguageObjectIdException", pe |-> pe]
        ELSE IF ~(parent = NoneObj \/ has_key(pe.languageObjects, parent.id))
        THEN [exc |-> "AssertionError", pe |-> pe]
        ELSE [exc |-> "ok",
              pe |-> [pe EXCEPT !.languageObjects =
                         dictSet(pe.languageObjects, id, aLanguageObject)]]

\* Mutant of addFunctionCall: the call is put in front of the list.
addFunctionCallFirst(pe, aFunctionCall) ==
    [pe EXCEPT !.functionCalls = <<aFunctionCall>> \o pe.functionCalls]

\* ProgramExecution.addFunctionCall
addFunctionCall(pe, aFunctionCall) ==
    [pe EXCEPT !.functionCalls = Append(pe.functionCalls, aFunctionCall)]

(***************************************************************************)
(* serialization.py                                                        *)
(*                                                                         *)
(* Python values that reach asJsonString are records tagged by their type: *)
(* None, an int, a str, or a list or tuple whose children were replaced by *)
(* LanguageObject ids. JSON text is a string; the indentation json.dump    *)
(* adds is left out of it.                                                 *)
(***************************************************************************)
PyNone == [ty |-> "NoneType"]
PyInt(n) == [ty |-> "int", i |-> n]
PyStr(s) == [ty |-> "str", s |-> s]
PyList(ids) == [ty |-> "list", ids |-> ids]
PyTuple(ids) == [ty |-> "tuple", ids |-> ids]
\* a dict whose keys and values were replaced by LanguageObject ids (map: key id ->
\* value id), and the dict json.loads returns for its text: its keys are the
\* unicode strings of the key ids (map: the id k stands for the key u"k")
PyDict(map) == [ty |-> "dict", keys |-> "int", map |-> map]
PyJsonDict(map) == [ty |-> "dict", keys |-> "unicode", map |-> map]

\* ", ".join(str(i) for i in ids)
RECURSIVE JoinInts(_)
JoinInts(ids) ==
    IF Len(ids) = 0 THEN ""
    ELSE IF Len(ids) = 1 THEN ToString(ids[1])
    ELSE ToString(ids[1]) \o ", " \o JoinInts(Tail(ids))

\* the ids of a dict with small int keys, in the order items() lists them: ascending
\* (hash(i) = i, and the table always has more slots than the largest key here)
RECURSIVE SortedIds(_)
SortedIds(S) ==
    IF S = {} THEN <<>>
    ELSE LET m == CHOOSE x \in S : \A y \in S : x <= y
         IN  <<m>> \o SortedIds(S \ {m})

\* the numbers below 100 in the order sorted() puts their decimal strings in
\* ("3" < "30" < "39" < "4")
RECURSIVE SortedDecimals(_)
SortedDecimals(S) ==
    IF S = {} THEN <<>>
    ELSE LET key(i) == IF i < 10 THEN i * 100 ELSE (i \div 10) * 100 + (i % 10) + 1
             m == CHOOSE x \in S : \A y \in S : key(x) <= key(y)
         IN  <<m>> \o SortedDecimals(S \ {m})

\* ", ".join of the items of a dict of ids, the keys ascending: "k: v" as str()
\* writes them (quoted is FALSE) or "\"k\": v" as json.dump with sort_keys does
RECURSIVE JoinItems(_, _, _)
JoinItems(map, keys, quoted) ==
    IF Len(keys) = 0 THEN ""
    ELSE LET k == IF quoted THEN "\"" \o ToString(keys[1]) \o "\"" ELSE ToString(keys[1])
             item == k \o ": " \o ToString(map[keys[1]])
         IN  IF Len(keys) = 1 THEN item
             ELSE item \o ", " \o JoinItems(map, Tail(keys), quoted)

\* json raises TypeError on anything but None, numbers, strings and containers of them
JsonSerializable(obj) == obj.ty \in {"NoneType", "int", "str", "list", "tuple", "dict"}

\* asJsonString (json.dump): the JSON text of a serializable value
asJsonString(obj) ==
    CASE obj.ty = "NoneType" -> "null"
      [] obj.ty = "int" -> ToString(obj.i)
      [] obj.ty = "str" -> "\"" \o obj.s \o "\""
      [] obj.ty \in {"list", "tuple"} -> "[" \o JoinInts(obj.ids) \o "]"
      [] obj.ty = "dict" /\ obj.keys = "int" ->
            "{" \o JoinItems(obj.map, SortedIds(DOMAIN obj.map), TRUE) \o "}"
      [] obj.ty = "dict" /\ obj.keys = "unicode" ->
            "{" \o JoinItems(obj.map, SortedDecimals(DOMAIN obj.map), TRUE) \o "}"
      [] OTHER -> "TypeError"

\* Bounds of the JSON values that can be read back
MaxObjectId == 16
MaxListLen == 2
MaxDictLen == 1

\* the ints and strs that occur as literals in the modelled programs
IntLiterals == {1, 4, 5, 25}
StrLiterals == {"MyFunctions", "__builtin__", "MyFunctions.MyClass", "MyFunctions.MyException", "MyFunctions.NonAnnotatedClass", "MyFunctions.ClassWithConstructor", "MyFunctions.ClassWithDummyParameters", "MyFunctions.ClassWithStaticAndClassMethods", "exceptions", "exceptions.TypeError", "int", "list", "NoneType", "Dummy", "mod1", "Class1", "str", "tuple", "dict", "x", "[4, 5]"}

SeqsUpTo(S, n) == UNION {[1..k -> S] : k \in 0..n}

\* every value json.loads can return here: a JSON array is read back as a list,
\* a JSON object as a dict with unicode keys
JsonUniverse ==
    {PyNone} \cup {PyInt(n) : n \in IntLiterals} \cup {PyStr(t) : t \in StrLiterals}
        \cup {PyList(q) : q \in SeqsUpTo(1..MaxObjectId, MaxListLen)}
        \cup UNION {{PyJsonDict(m) : m \in [{q[i] : i \in DOMAIN q} -> 1..MaxObjectId]} :
                        q \in SeqsUpTo(1..MaxObjectId, MaxDictLen)}

\* the JSON text of every value of JsonUniverse
JsonText == [j \in JsonUniverse |-> asJsonString(j)]

\* fromJsonString (json.loads): the value whose JSON text is str, or ValueError
fromJsonString(str) ==
    IF \E j \in JsonUniverse : JsonText[j] = str
    THEN CHOOSE j \in JsonUniverse : JsonText[j] = str
    ELSE [ty |-> "ValueError"]

\* getOptionalObjectId, nested in __dumpProgramExecutionAsJsonMap
getOptionalObjectId(obj) == IF obj = NoneObj THEN 0 ELSE obj.id

\* dump: the args / kargs split of one call's argsList (a later argument of the
\* same name replaces the earlier one in kargsMap)
RECURSIVE dumpArguments(_, _, _)
dumpArguments(argsList, argsOut, kargsMap) ==
    IF argsList = <<>> THEN [args |-> argsOut, kargs |-> kargsMap]
    ELSE LET anArgument == Head(argsList)
             theId == anArgument.languageObject.id
             theName == anArgument.name
         IN  IF theName = NoneName
             THEN dumpArguments(Tail(argsList), Append(argsOut, theId), kargsMap)
             ELSE dumpArguments(Tail(argsList), argsOut, dictSet(kargsMap, theName, theId))

\* dump: one LanguageObject record
dumpLanguageObject(o) ==
    [id |-> o.id, languageTypeId |-> o.languageType,
     declarationType |-> o.declarationType,
     declarationCode |-> fromJsonString(o.declarationCode),
     parentId |-> getOptionalObjectId(o.parent)]

\* Mutant of dumpFunctionCall: the level is not written (0 for every call).
dumpFunctionCallNoLevel(aCall) ==
    [id |-> aCall.id, calleeId |-> aCall.callee.id, funcName |-> aCall.functionName,
     methodType |-> aCall.methodType, level |-> 0,
     returnedObject |-> getOptionalObjectId(aCall.returnedObject),
     threwException |-> aCall.threwException,
     arguments |-> dumpArguments(aCall.argsList, <<>>, <<>>)]

\* dump: one FunctionCall record
dumpFunctionCall(aCall) ==
    [id |-> aCall.id, calleeId |-> aCall.callee.id, funcName |-> aCall.functionName,
     methodType |-> aCall.methodType, level |-> aCall.level,
     returnedObject |-> getOptionalObjectId(aCall.returnedObject),
     threwException |-> aCall.threwException,
     arguments |-> dumpArguments(aCall.argsList, <<>>, <<>>)]

\* CallGraphSerializer.__dumpProgramExecutionAsJsonMap (and dump, which writes it):
\* the document, or the exception raised
dumpProgramExecutionAsJsonMap(aProgramExecution) ==
    LET langObjects == aProgramExecution.languageObjects
        order == SortedIds(DOMAIN langObjects)
        loArray == [i \in 1..Len(order) |-> dumpLanguageObject(langObjects[order[i]])]
        theCalls == aProgramExecution.functionCalls
    IN  IF \E i \in 1..Len(loArray) : loArray[i].declarationCode.ty = "ValueError"
        THEN [exc |-> "ValueError"]
        ELSE [exc |-> "ok",
              doc |-> [language |-> aProgramExecution.language,
                       languageTypes |->
                           [i \in 1..Len(aProgramExecution.languageTypes) |->
                               [id |-> aProgramExecution.languageTypes[i],
                                name |-> asString(aProgramExecution.languageTypes[i])]],
                       languageObjects |-> loArray,
                       callGraph |->
                           [i \in 1..Len(theCalls) |-> dumpFunctionCall(theCalls[i])]]]

\* getLanguageObjectFromId, nested in __loadProgramExecutionFromJsonMap:
\* None for id 0, KeyError for an id that is not in the store
getLanguageObjectFromId(aProgramExecution, id) ==
    IF id = 0 THEN [exc |-> "ok", obj |-> NoneObj]
    ELSE IF has_key(aProgramExecution.languageObjects, id)
         THEN [exc |-> "ok", obj |-> aProgramExecution.languageObjects[id]]
         ELSE [exc |-> "KeyError"]

\* load: the LanguageType table of the document against the expected one
loadLanguageTypes(myProgramExecution, langTypesMap) ==
    IF \E i \in 1..Len(langTypesMap) : asString(langTypesMap[i].id) = "KeyError"
    THEN "KeyError"
    ELSE IF \E i \in 1..Len(langTypesMap) :
                asString(langTypesMap[i].id) # langTypesMap[i].name
    THEN "CallGraphLoadException"
    ELSE LET expected == myProgramExecution.languageTypes
             count(q, x) == Cardinality({i \in 1..Len(q) : q[i] = x})
         IN  \* sorted(a) != sorted(b): the two lists differ as multisets
             IF \E x \in 0..8 : count(expected, x) # count([i \in 1..Len(langTypesMap) |-> langTypesMap[i].id], x)
             THEN "CallGraphLoadException"
             ELSE "ok"

\* load: the LanguageObject records, in document order
RECURSIVE loadLanguageObjects(_, _)
loadLanguageObjects(myProgramExecution, langObjectsArray) ==
    IF langObjectsArray = <<>> THEN [exc |-> "ok", pe |-> myProgramExecution]
    ELSE LET lo == Head(langObjectsArray)
             parent == getLanguageObjectFromId(myProgramExecution, lo.parentId)
         IN  IF parent.exc # "ok" THEN [exc |-> parent.exc]
             ELSE LET myLo == LanguageObjectInit(lo.id, lo.languageTypeId, lo.declarationType,
                                                 asJsonString(lo.declarationCode), parent.obj)
                  IN  IF myLo.exc # "ok" THEN [exc |-> myLo.exc]
                      ELSE LET added == addLanguageObject(myProgramExecution, myLo.obj)
                           IN  IF added.exc # "ok" THEN [exc |-> added.exc]
                               ELSE loadLanguageObjects(added.pe, Tail(langObjectsArray))

\* load: the positional arguments of one call
RECURSIVE loadArgs(_, _, _)
loadArgs(myProgramExecution, args, argsList) ==
    IF args = <<>> THEN [exc |-> "ok", argsList |-> argsList]
    ELSE LET o == getLanguageObjectFromId(myProgramExecution, Head(args))
         IN  IF o.exc # "ok" THEN [exc |-> o.exc]
             ELSE IF o.obj = NoneObj THEN [exc |-> "AssertionError"]
             ELSE loadArgs(myProgramExecution, Tail(args), Append(argsList, Argument(o.obj, NoneName)))

\* load: the keyword arguments of one call; items lists the names of kargsMap in
\* the order kargsMap.items() yields them
RECURSIVE loadKargs(_, _, _, _)
loadKargs(myProgramExecution, kargsMap, items, argsList) ==
    IF items = <<>> THEN [exc |-> "ok", argsList |-> argsList]
    ELSE LET argName == Head(items)
             o == getLanguageObjectFromId(myProgramExecution, kargsMap[argName])
         IN  IF o.exc # "ok" THEN [exc |-> o.exc]
             ELSE IF o.obj = NoneObj THEN [exc |-> "AssertionError"]
             ELSE loadKargs(myProgramExecution, kargsMap, Tail(items), Append(argsList, Argument(o.obj, argName)))

\* the keys of dict d in the order of the sequence keyOrder (an enumeration of all keys)
RECURSIVE itemsInOrder(_, _)
itemsInOrder(d, keyOrder) ==
    IF keyOrder = <<>> THEN <<>>
    ELSE IF Head(keyOrder) \in DOMAIN d
         THEN <<Head(keyOrder)>> \o itemsInOrder(d, Tail(keyOrder))
         ELSE itemsInOrder(d, Tail(keyOrder))

\* load: one FunctionCall record (Python language branch)
loadFunctionCall(myProgramExecution, callMap, keyOrder) ==
    LET callee == getLanguageObjectFromId(myProgramExecution, callMap.calleeId)
        returnedObject == getLanguageObjectFromId(myProgramExecution, callMap.returnedObject)
        args == loadArgs(myProgramExecution, callMap.arguments.args, <<>>)
        kargs == IF args.exc # "ok" THEN args
                 ELSE loadKargs(myProgramExecution, callMap.arguments.kargs,
                                itemsInOrder(callMap.arguments.kargs, keyOrder), args.argsList)
    IN  IF callee.exc # "ok" THEN [exc |-> callee.exc]
        ELSE IF returnedObject.exc # "ok" THEN [exc |-> returnedObject.exc]
        ELSE IF kargs.exc # "ok" THEN [exc |-> kargs.exc]
        ELSE [exc |-> "ok",
              func |-> FunctionCall(callMap.id, callee.obj, callMap.funcName, callMap.methodType,
                                    kargs.argsList, callMap.level, returnedObject.obj,
                                    callMap.threwException)]

\* load: the FunctionCall records, in document order
RECURSIVE loadFunctionCalls(_, _, _)
loadFunctionCalls(myProgramExecution, myCalls, keyOrder) ==
    IF myCalls = <<>> THEN [exc |-> "ok", pe |-> myProgramExecution]
    ELSE LET f == loadFunctionCall(myProgramExecution, Head(myCalls), keyOrder)
         IN  IF f.exc # "ok" THEN [exc |-> f.exc]
             ELSE loadFunctionCalls(addFunctionCall(myProgramExecution, f.func), Tail(myCalls), keyOrder)

\* CallGraphSerializer.__loadProgramExecutionFromJsonMap (and load, which reads the
\* document): the ProgramExecution, or the exception raised. keyOrder is the order
\* in which the str-keyed dicts of the document list their keys.
loadProgramExecutionFromJsonMap(progExecMap, keyOrder) ==
    LET myProgramExecution == ProgramExecution(progExecMap.language)
        types == loadLanguageTypes(myProgramExecution, progExecMap.languageTypes)
        objects == loadLanguageObjects(myProgramExecution, progExecMap.languageObjects)
    IN  IF types # "ok" THEN [exc |-> types]
        ELSE IF objects.exc # "ok" THEN [exc |-> objects.exc]
        ELSE loadFunctionCalls(objects.pe, progExecMap.callGraph, keyOrder)

(***************************************************************************)
(* SpecCG: the call_graph API driven by hand, as the unit tests do         *)
(* (call_graph_test.py, serialization_test.py).                            *)
(***************************************************************************)
\* Bounds of the hand-built graphs
MaxCgId == 3
MaxCgCalls == 1
MaxCgArgs == 2

CgCodes == {asJsonString(PyInt(5))}
CgArgNames == {NoneName, "x", "y"}
CgKeyOrders == {<<"x", "y">>, <<"y", "x">>}

\* the values of a dict
Values(d) == {d[k] : k \in DOMAIN d}

CgInit ==
    /\ cgPE = ProgramExecution(PYTHON)
    /\ cgOp = [op |-> "init"]
    /\ cgRes = "ok"
    /\ cgLoaded = NoneObj

\* obj = LanguageObject(id, languageType, declarationType, declarationCode, parent)
\* myProgramExecution.addLanguageObject(obj)
\* (testProgramExecution, languageObjectWithDuplicatedId); cgOp.init is the outcome
\* of the constructor, cgRes the outcome of the two statements
CgAddLanguageObject ==
    \E id \in 0..MaxCgId, languageType \in {LT_MODULE, LT_CLASS, LT_INSTANCE},
       declarationCode \in CgCodes, parent \in {NoneObj} \cup Values(cgPE.languageObjects) :
        LET r == LanguageObjectInit(id, languageType, DT_FIXED_VALUE, declarationCode, parent)
            a == addLanguageObject(cgPE, r.obj)
        IN  /\ cgOp' = [op |-> "addLanguageObject", id |-> id, languageType |-> languageType,
                        parentLanguageType |-> IF parent = NoneObj THEN LT_NONE
                                               ELSE parent.languageType,
                        init |-> r.exc]
            /\ cgRes' = IF r.exc # "ok" THEN r.exc ELSE a.exc
            /\ cgPE' = IF r.exc # "ok" THEN cgPE ELSE a.pe
            /\ cgLoaded' = NoneObj
            /\ UNCHANGED <<capVars, gen, reg>>

\* the stored object that the test passes as the i-th argument
CgArgObject(pe, i) ==
    LET order == SortedIds(DOMAIN pe.languageObjects)
    IN  pe.languageObjects[order[((i - 1) % Len(order)) + 1]]

\* myProgramExecution.addFunctionCall(FunctionCall(id, callee, "fun", MT.METHOD, argsList, 0))
CgAddFunctionCall ==
    /\ Len(cgPE.functionCalls) < MaxCgCalls
    /\ cgPE.languageObjects # <<>>
    /\ \E id \in 1..MaxCgCalls, k \in 0..MaxCgArgs :
        \E names \in [1..k -> CgArgNames] :
            LET argsList == [i \in 1..k |-> Argument(CgArgObject(cgPE, i), names[i])]
                aCall == FunctionCall(id, CgArgObject(cgPE, 1), "fun", MT_METHOD, argsList, 0,
                                      NoneObj, FALSE)
            IN  /\ cgPE' = addFunctionCall(cgPE, aCall)
                /\ cgOp' = [op |-> "addFunctionCall", id |-> id]
                /\ cgRes' = "ok"
    /\ cgLoaded' = NoneObj
    /\ UNCHANGED <<capVars, gen, reg>>

\* aSerializer.dump(myProgramExecution, fp); loaded = aSerializer.load(fp)
\* (testSerialization)
CgDumpLoad ==
    LET d == dumpProgramExecutionAsJsonMap(cgPE)
    IN  /\ cgOp' = [op |-> "dumpLoad"]
        /\ IF d.exc # "ok"
           THEN cgRes' = d.exc /\ cgLoaded' = NoneObj
           ELSE \E keyOrder \in CgKeyOrders :
                    LET l == loadProgramExecutionFromJsonMap(d.doc, keyOrder)
                    IN  /\ cgRes' = l.exc
                        /\ cgLoaded' = IF l.exc = "ok" THEN l.pe ELSE NoneObj
        /\ UNCHANGED <<cgPE, capVars, gen, reg>>

CgNext ==
    \/ CgAddLanguageObject
    \/ CgAddFunctionCall
    \/ CgDumpLoad

(***************************************************************************)
(* annotator.py: the Python values that reach the annotator                *)
(*                                                                         *)
(* A value is a record tagged by ty: "module", "type" (a class), "int",    *)
(* "str", "NoneType", "list", "tuple" and "dict" (items), "object"         *)
(* (an instance of a new-style class, at address addr), "exception" (an    *)
(* instance of an Exception subclass whose __str__ returns msg) and        *)
(* "instance" (an instance of an old-style class, types.InstanceType).     *)
(***************************************************************************)
PyModule(name) == [ty |-> "module", name |-> name]
PyClass(module, name) == [ty |-> "type", module |-> module, name |-> name]
PyListOf(items) == [ty |-> "list", items |-> items]
PyTupleOf(items) == [ty |-> "tuple", items |-> items]
\* a dict: items is the sequence of <<key, value>> pairs in the order of items()
PyDictOf(items) == [ty |-> "dict", items |-> items]
PyObject(module, cls, addr) == [ty |-> "object", module |-> module, cls |-> cls, addr |-> addr]
PyException(module, cls, msg) == [ty |-> "exception", module |-> module, cls |-> cls, msg |-> msg]

\* PythonConstants.BUILTINS_MODULE_NAME
BUILTINS_MODULE_NAME == "__builtin__"

\* PythonConstants.CONSTRUCTOR_SIGNATURE
CONSTRUCTOR_SIGNATURE == "__init__"

\* str(obj)
pyStr(obj) ==
    CASE obj.ty = "module" -> "<module '" \o obj.name \o "'>"
      [] obj.ty = "type" ->
            IF obj.module = BUILTINS_MODULE_NAME THEN "<type '" \o obj.name \o "'>"
            ELSE "<class '" \o obj.module \o "." \o obj.name \o "'>"
      [] obj.ty = "int" -> ToString(obj.i)
      [] obj.ty = "str" -> obj.s
      [] obj.ty = "NoneType" -> "None"
      [] obj.ty = "list" -> "[" \o JoinInts(obj.ids) \o "]"
      [] obj.ty = "tuple" -> "(" \o JoinInts(obj.ids) \o ")"
      [] obj.ty = "dict" -> "{" \o JoinItems(obj.map, SortedIds(DOMAIN obj.map), FALSE) \o "}"
      [] obj.ty = "exception" -> obj.msg
      [] OTHER -> "<" \o obj.module \o "." \o obj.cls \o " object at " \o ToString(obj.addr) \o ">"

\* obj.__class__
pyClassOf(obj) ==
    IF obj.ty \in {"object", "exception", "instance"} THEN PyClass(obj.module, obj.cls)
    ELSE PyClass(BUILTINS_MODULE_NAME, obj.ty)

\* _getLanguageType
getLanguageType(obj) ==
    IF obj.ty = "module" THEN LT_MODULE
    ELSE IF obj.ty = "type" THEN LT_CLASS
    ELSE LT_INSTANCE

\* _getClassMethodsType(cls)[funcName]: the kind of attribute that
\* inspect.classify_class_attrs reports for the classes of the modelled programs,
\* whose class methods and static methods are those of
\* ClassWithStaticAndClassMethods
getClassMethodsType(funcName) ==
    IF funcName \in {"classMethod0", "classMethod1"} THEN "class method"
    ELSE IF funcName \in {"static0", "static1"} THEN "static method"
    ELSE "method"

\* _getInspectMethodType: 'method' for the functions of a module
getInspectMethodType(annotatedObj, funcName) ==
    IF annotatedObj.ty = "module" THEN "method" ELSE getClassMethodsType(funcName)

\* _getFunctionCallMethodType
getFunctionCallMethodType(obj, funcName) ==
    LET imt == getInspectMethodType(obj, funcName)
    IN  IF imt = "static method" THEN MT_STATIC_METHOD
        ELSE IF imt = "class method" THEN MT_CLASS_METHOD
        ELSE IF imt = "property" THEN MT_PROPERTY
        ELSE IF funcName = CONSTRUCTOR_SIGNATURE THEN MT_CONSTRUCTOR
        ELSE MT_METHOD

\* AnnotatorThread._hasParent
hasParent(obj, objType) == objType # LT_MODULE

\* AnnotatorThread._getParent
getParent(obj, objType) ==
    IF objType = LT_CLASS THEN PyModule(obj.module) ELSE pyClassOf(obj)

\* getPythonUniqueId, nested in _declareObjectAndParents
getPythonUniqueId(obj, objType) ==
    IF objType = "instance" THEN "ID:" \o ToString(obj.addr)
    ELSE "ST:" \o pyStr(obj)

\* Mutant of getDeclarationInfo: the callee is declared as any other value.
getDeclarationInfoNoCallee(obj, objType, isCallee) ==
    LET objToDump ==
            IF objType = LT_MODULE THEN PyStr(obj.name)
            ELSE IF objType = LT_CLASS
                 THEN PyStr((IF obj.module = BUILTINS_MODULE_NAME THEN ""
                             ELSE obj.module \o ".") \o obj.name)
            ELSE obj
    IN  IF JsonSerializable(objToDump)
        THEN [declarationType |-> DT_FIXED_VALUE, declarationCode |-> asJsonString(objToDump)]
        ELSE [declarationType |-> DT_DUMMY, declarationCode |-> asJsonString(PyStr("Dummy"))]

\* Mutant of getDeclarationInfo: every callee is a Constructor, modules and classes too.
getDeclarationInfoAnyCallee(obj, objType, isCallee) ==
    LET objToDump ==
            IF objType = LT_MODULE THEN PyStr(obj.name)
            ELSE IF objType = LT_CLASS
                 THEN PyStr((IF obj.module = BUILTINS_MODULE_NAME THEN ""
                             ELSE obj.module \o ".") \o obj.name)
            ELSE IF isCallee THEN PyNone
            ELSE obj
    IN  IF JsonSerializable(objToDump)
        THEN [declarationType |-> IF isCallee THEN DT_CONSTRUCTOR ELSE DT_FIXED_VALUE,
              declarationCode |-> asJsonString(objToDump)]
        ELSE [declarationType |-> DT_DUMMY, declarationCode |-> asJsonString(PyStr("Dummy"))]

\* AnnotatorThread._getDeclarationInfo
getDeclarationInfo(obj, objType, isCallee) ==
    LET declarationType == IF objType = LT_INSTANCE /\ isCallee THEN DT_CONSTRUCTOR
                           ELSE DT_FIXED_VALUE
        objToDump ==
            IF objType = LT_MODULE THEN PyStr(obj.name)
            ELSE IF objType = LT_CLASS
                 THEN PyStr((IF obj.module = BUILTINS_MODULE_NAME THEN ""
                             ELSE obj.module \o ".") \o obj.name)
            ELSE IF isCallee THEN PyNone
            ELSE obj
    IN  IF JsonSerializable(objToDump)
        THEN [declarationType |-> declarationType, declarationCode |-> asJsonString(objToDump)]
        ELSE [declarationType |-> DT_DUMMY, declarationCode |-> asJsonString(PyStr("Dummy"))]

\* Mutant of getNewId: both containers draw their ids from one counter.
getNewIdSharedCounter(nextIdsMap, containerType) ==
    [newId |-> nextIdsMap["LANGUAGE_OBJECTS"],
     nextIdsMap |-> [nextIdsMap EXCEPT !["LANGUAGE_OBJECTS"] = @ + 1]]

\* AnnotatorThread._getNewId
getNewId(nextIdsMap, containerType) ==
    [newId |-> nextIdsMap[containerType],
     nextIdsMap |-> [nextIdsMap EXCEPT ![containerType] = @ + 1]]

(***************************************************************************)
(* annotator.py: AnnotatorThread                                           *)
(*                                                                         *)
(* The operators below take and return the Annotator record a: the thread  *)
(* shares a.programExecution and a.callGraphQueue with the Annotator that  *)
(* created it. A FunctionCall held by annotationIdToFuncCall_ is the       *)
(* object stored in functionCalls_, so the map holds its position there.   *)
(* created is a history field: the LanguageObject ids in creation order.   *)
(***************************************************************************)
\* Annotator.annotatorThread_ = None
NoThread == [alive |-> "none"]

\* AnnotatorThread.__init__, then start()
AnnotatorThreadInit ==
    [alive |-> "running",
     nextIdsMap |-> [LANGUAGE_OBJECTS |-> 1, FUNCTION_CALLS |-> 1],
     annotationIdToFuncCall |-> <<>>,
     pythonIdToLanguageObjectId |-> <<>>,
     currentFunctionLevel |-> MIN_LEVEL - 1,
     annotationEnded |-> FALSE,
     created |-> <<>>]

\* a local variable: v is evaluated once and F is applied to its value
Bind(v, F(_)) == CHOOSE y \in {F(r) : r \in {v}} : TRUE

\* The children of a container: declared left to right, replaced by their ids,
\* and the declaration of the object itself; both stop at the first exception.
RECURSIVE declareChildren(_, _, _)
RECURSIVE declareItems(_, _, _)
RECURSIVE declareNew(_, _, _, _, _)
RECURSIVE declareObjectAndParentsAlways(_, _, _)
RECURSIVE declareObjectAndParents(_, _, _)

declareChildren(a, children, auxList) ==
    IF children = <<>> THEN [exc |-> "ok", a |-> a, ids |-> auxList]
    ELSE Bind(<<Head(children), Tail(children), auxList>>, LAMBDA c :
         Bind(declareObjectAndParents(a, c[1], FALSE), LAMBDA childLo :
             IF childLo.exc # "ok" THEN [exc |-> childLo.exc, a |-> childLo.a, ids |-> c[3]]
             ELSE declareChildren(childLo.a, c[2], Append(c[3], childLo.lo.id))))

\* The items of a dict: for every item the key, then the value, are declared and
\* objToDeclare[keyLo.getId()] = valueLo.getId()
declareItems(a, items, auxMap) ==
    IF items = <<>> THEN [exc |-> "ok", a |-> a, ids |-> auxMap]
    ELSE Bind(<<Head(items), Tail(items), auxMap>>, LAMBDA c :
         Bind(declareObjectAndParents(a, c[1][1], FALSE), LAMBDA keyLo :
             IF keyLo.exc # "ok" THEN [exc |-> keyLo.exc, a |-> keyLo.a, ids |-> c[3]]
             ELSE Bind(declareObjectAndParents(keyLo.a, c[1][2], FALSE), LAMBDA valueLo :
                      IF valueLo.exc # "ok"
                      THEN [exc |-> valueLo.exc, a |-> valueLo.a, ids |-> c[3]]
                      ELSE declareItems(valueLo.a, c[2],
                                        dictSet(c[3], keyLo.lo.id, valueLo.lo.id)))))

\* Mutant of declareNew: the id of the object is taken before its parent is declared.
declareNewIdFirst(a, obj, objToDeclare, pythonId, isCallee) ==
    Bind(getLanguageType(obj), LAMBDA objType :
    Bind(getDeclarationInfo(objToDeclare, objType, isCallee), LAMBDA info :
    Bind(getNewId(a.annotatorThread.nextIdsMap, "LANGUAGE_OBJECTS"), LAMBDA n :
    Bind(IF hasParent(obj, objType)
         THEN declareObjectAndParents([a EXCEPT !.annotatorThread.nextIdsMap = n.nextIdsMap],
                                      getParent(obj, objType), FALSE)
         ELSE [exc |-> "ok", a |-> [a EXCEPT !.annotatorThread.nextIdsMap = n.nextIdsMap],
               lo |-> NoneObj], LAMBDA parentLo :
        IF parentLo.exc # "ok" THEN parentLo
        ELSE Bind(LanguageObjectInit(n.newId, objType, info.declarationType,
                                     info.declarationCode, parentLo.lo), LAMBDA lo :
                 IF lo.exc # "ok" THEN [exc |-> lo.exc, a |-> parentLo.a, lo |-> NoneObj]
                 ELSE Bind(addLanguageObject(parentLo.a.programExecution, lo.obj), LAMBDA added :
                          IF added.exc # "ok"
                          THEN [exc |-> added.exc, a |-> parentLo.a, lo |-> NoneObj]
                          ELSE [exc |-> "ok",
                                a |-> [parentLo.a EXCEPT
                                          !.programExecution = added.pe,
                                          !.annotatorThread.pythonIdToLanguageObjectId =
                                              dictSet(@, pythonId, n.newId),
                                          !.annotatorThread.created = Append(@, n.newId)],
                                lo |-> lo.obj]))))))

\* _declareObjectAndParents from "#obj" on: the object was not declared before
declareNew(a, obj, objToDeclare, pythonId, isCallee) ==
    Bind(getLanguageType(obj), LAMBDA objType :
    Bind(getDeclarationInfo(objToDeclare, objType, isCallee), LAMBDA info :
    Bind(IF hasParent(obj, objType)
         THEN declareObjectAndParents(a, getParent(obj, objType), FALSE)
         ELSE [exc |-> "ok", a |-> a, lo |-> NoneObj], LAMBDA parentLo :
        IF parentLo.exc # "ok" THEN parentLo
        ELSE Bind(getNewId(parentLo.a.annotatorThread.nextIdsMap, "LANGUAGE_OBJECTS"), LAMBDA n :
             Bind([parentLo.a EXCEPT !.annotatorThread.nextIdsMap = n.nextIdsMap], LAMBDA a1 :
             Bind(LanguageObjectInit(n.newId, objType, info.declarationType,
                                     info.declarationCode, parentLo.lo), LAMBDA lo :
                 IF lo.exc # "ok" THEN [exc |-> lo.exc, a |-> a1, lo |-> NoneObj]
                 ELSE Bind(addLanguageObject(a1.programExecution, lo.obj), LAMBDA added :
                          IF added.exc # "ok" THEN [exc |-> added.exc, a |-> a1, lo |-> NoneObj]
                          ELSE [exc |-> "ok",
                                a |-> [a1 EXCEPT
                                          !.programExecution = added.pe,
                                          !.annotatorThread.pythonIdToLanguageObjectId =
                                              dictSet(@, pythonId, n.newId),
                                          !.annotatorThread.created = Append(@, n.newId)],
                                lo |-> lo.obj])))))))

\* Mutant of declareObjectAndParents: the look-up of the identity key is missing,
\* every resolution declares a new object.
declareObjectAndParentsAlways(a, obj, isCallee) ==
    Bind(IF obj.ty \in {"list", "tuple"} THEN declareChildren(a, obj.items, <<>>)
         ELSE IF obj.ty = "dict" THEN declareItems(a, obj.items, <<>>)
         ELSE [exc |-> "ok", a |-> a, ids |-> <<>>], LAMBDA children :
    Bind(IF obj.ty = "list" THEN PyList(children.ids)
         ELSE IF obj.ty = "tuple" THEN PyTuple(children.ids)
         ELSE IF obj.ty = "dict" THEN PyDict(children.ids)
         ELSE obj, LAMBDA objToDeclare :
    Bind(getPythonUniqueId(objToDeclare, obj.ty), LAMBDA pythonId :
        IF children.exc # "ok" THEN [exc |-> children.exc, a |-> children.a, lo |-> NoneObj]
        ELSE declareNew(children.a, obj, objToDeclare, pythonId, isCallee))))

\* AnnotatorThread._declareObjectAndParents: the LanguageObject of obj, declared
\* with its parents if its identity key was not seen before
declareObjectAndParents(a, obj, isCallee) ==
    Bind(IF obj.ty \in {"list", "tuple"} THEN declareChildren(a, obj.items, <<>>)
         ELSE IF obj.ty = "dict" THEN declareItems(a, obj.items, <<>>)
         ELSE [exc |-> "ok", a |-> a, ids |-> <<>>], LAMBDA children :
    Bind(IF obj.ty = "list" THEN PyList(children.ids)
         ELSE IF obj.ty = "tuple" THEN PyTuple(children.ids)
         ELSE IF obj.ty = "dict" THEN PyDict(children.ids)
         ELSE obj, LAMBDA objToDeclare :
    Bind(getPythonUniqueId(objToDeclare, obj.ty), LAMBDA pythonId :
        IF children.exc # "ok" THEN [exc |-> children.exc, a |-> children.a, lo |-> NoneObj]
        ELSE IF has_key(children.a.annotatorThread.pythonIdToLanguageObjectId, pythonId)
        THEN [exc |-> "ok", a |-> children.a,
              lo |-> children.a.programExecution.languageObjects[
                         children.a.annotatorThread.pythonIdToLanguageObjectId[pythonId]]]
        ELSE declareNew(children.a, obj, objToDeclare, pythonId, isCallee))))

\* the two loops of _processQueueItem over args and over kargs.items(): arguments
\* is the sequence of <<name, value>> pairs in that order
RECURSIVE declareArguments(_, _, _)
declareArguments(a, arguments, argsList) ==
    IF arguments = <<>> THEN [exc |-> "ok", a |-> a, argsList |-> argsList]
    ELSE Bind(<<Head(arguments), Tail(arguments), argsList>>, LAMBDA c :
         Bind(declareObjectAndParents(a, c[1][2], FALSE), LAMBDA argLanguageObject :
             IF argLanguageObject.exc # "ok"
             THEN [exc |-> argLanguageObject.exc, a |-> argLanguageObject.a, argsList |-> c[3]]
             ELSE declareArguments(argLanguageObject.a, c[2],
                      Append(c[3], Argument(argLanguageObject.lo, c[1][1])))))

\* QueueInfo.MessageTypes
ENTER_FUNCTION == "ENTER_FUNCTION"
EXIT_FUNCTION == "EXIT_FUNCTION"
END_ANNOTATION == "END_ANNOTATION"

\* _processQueueItem, ENTER_FUNCTION branch
processEnterFunction(a, item) ==
    Bind([a EXCEPT !.annotatorThread.currentFunctionLevel = @ + 1], LAMBDA a0 :
    Bind(getFunctionCallMethodType(item.obj, item.funcName), LAMBDA methodType :
    Bind(declareObjectAndParents(a0, item.obj, TRUE), LAMBDA lo :
    Bind(IF lo.exc # "ok" THEN [exc |-> lo.exc, a |-> lo.a]
         ELSE declareArguments(lo.a,
                  [i \in 1..Len(item.args) |-> <<NoneName, item.args[i]>>] \o item.kargs,
                  <<>>), LAMBDA args :
        IF args.exc # "ok" THEN [exc |-> args.exc, a |-> args.a]
        ELSE Bind(getNewId(args.a.annotatorThread.nextIdsMap, "FUNCTION_CALLS"), LAMBDA n :
             Bind(addFunctionCall(args.a.programExecution,
                      FunctionCall(n.newId, lo.lo, item.funcName, methodType, args.argsList,
                                   args.a.annotatorThread.currentFunctionLevel, NoneObj, FALSE)),
                  LAMBDA pe :
                 [exc |-> "ok",
                  a |-> [args.a EXCEPT
                            !.annotatorThread.nextIdsMap = n.nextIdsMap,
                            !.programExecution = pe,
                            !.annotatorThread.annotationIdToFuncCall =
                                dictSet(@, item.annotationId, Len(pe.functionCalls))]]))))))

\* Mutant of processExitFunction: currentFunctionLevel_ is not decremented.
processExitFunctionKeepLevel(a, item) ==
    IF ~has_key(a.annotatorThread.annotationIdToFuncCall, item.annotationId)
    THEN [exc |-> "KeyError", a |-> a]
    ELSE Bind(declareObjectAndParents(a, item.returnedObj, FALSE), LAMBDA returnedObjectLo :
             IF returnedObjectLo.exc # "ok"
             THEN [exc |-> returnedObjectLo.exc, a |-> returnedObjectLo.a]
             ELSE [exc |-> "ok",
                   a |-> [returnedObjectLo.a EXCEPT
                             !.programExecution.functionCalls[
                                 a.annotatorThread.annotationIdToFuncCall[item.annotationId]] =
                                 [@ EXCEPT !.returnedObject = returnedObjectLo.lo,
                                           !.threwException = item.threw]]])

\* _processQueueItem, EXIT_FUNCTION branch
processExitFunction(a, item) ==
    IF ~has_key(a.annotatorThread.annotationIdToFuncCall, item.annotationId)
    THEN [exc |-> "KeyError", a |-> a]
    ELSE LET funcCall == a.annotatorThread.annotationIdToFuncCall[item.annotationId]
         IN  Bind(declareObjectAndParents(a, item.returnedObj, FALSE), LAMBDA returnedObjectLo :
             IF returnedObjectLo.exc # "ok"
             THEN [exc |-> returnedObjectLo.exc, a |-> returnedObjectLo.a]
             ELSE [exc |-> "ok",
                   a |-> [returnedObjectLo.a EXCEPT
                             !.programExecution.functionCalls[funcCall].returnedObject =
                                 returnedObjectLo.lo,
                             !.programExecution.functionCalls[funcCall].threwException = item.threw,
                             !.annotatorThread.currentFunctionLevel = @ - 1]])

\* AnnotatorThread._processQueueItem: the Annotator record after the item, or the
\* exception that ends the thread and the record as the exception leaves it
processQueueItem(a, item) ==
    IF item.type = END_ANNOTATION
    THEN [exc |-> "ok", a |-> [a EXCEPT !.annotatorThread.annotationEnded = TRUE]]
    ELSE IF item.type = ENTER_FUNCTION THEN processEnterFunction(a, item)
    ELSE processExitFunction(a, item)

\* AnnotatorThread.run, one turn of the loop: get() an item, process it,
\* leave the loop on annotationEnded_, die on an exception
run(a) ==
    Bind(<<[a EXCEPT !.callGraphQueue = Tail(@)], Head(a.callGraphQueue)>>, LAMBDA g :
    Bind(processQueueItem(g[1], g[2]), LAMBDA r :
        IF r.exc # "ok" THEN [r.a EXCEPT !.annotatorThread.alive = "crashed"]
        ELSE IF r.a.annotatorThread.annotationEnded
        THEN [r.a EXCEPT !.annotatorThread.alive = "ended"]
        ELSE r.a))

(***************************************************************************)
(* annotator.py: Annotator                                                 *)
(***************************************************************************)
\* Annotator.__init__
AnnotatorInit ==
    [oldFuncs |-> {}, funcsToAnnotate |-> {}, callGraphQueue |-> <<>>,
     programExecution |-> NoneObj, annotatorThread |-> NoThread]

\* Mutant of functionStarted: the wrapper records the call itself instead of
\* handing it to the coordinator.
functionStartedInline(a, annotationId, obj, funcName, args, kwargs) ==
    LET item == [type |-> ENTER_FUNCTION, obj |-> obj, annotationId |-> annotationId,
                 funcName |-> funcName, args |-> args, kargs |-> kwargs]
    IN  IF a.annotatorThread.alive = "running"
        THEN [processEnterFunction(a, item).a EXCEPT !.callGraphQueue = Append(@, item)]
        ELSE [a EXCEPT !.callGraphQueue = Append(@, item)]

\* Annotator.functionStarted
functionStarted(a, annotationId, obj, funcName, args, kwargs) ==
    LET item == [type |-> ENTER_FUNCTION, obj |-> obj, annotationId |-> annotationId,
                 funcName |-> funcName, args |-> args, kargs |-> kwargs]
    IN  [a EXCEPT !.callGraphQueue = Append(@, item)]

\* Annotator.functionEnded
functionEnded(a, annotationId, threwException, returnedObject) ==
    LET item == [type |-> EXIT_FUNCTION, annotationId |-> annotationId,
                 threw |-> threwException, returnedObj |-> returnedObject]
    IN  [a EXCEPT !.callGraphQueue = Append(@, item)]

\* Annotator.resetForNewAnnotations
resetForNewAnnotations(a) ==
    [oldFuncs |-> {}, funcsToAnnotate |-> {}, callGraphQueue |-> <<>>,
     programExecution |-> ProgramExecution(PYTHON), annotatorThread |-> AnnotatorThreadInit]

(***************************************************************************)
(* Spec: capture sessions.                                                 *)
(*                                                                         *)
(* The caller thread drives the Annotator singleton as annotator_test.py   *)
(* does (resetForNewAnnotations, annotate, then a ProgramExecutionDumper   *)
(* block); producer threads call the annotated functions of MyFunctions.py;*)
(* the AnnotatorThread drains the queue.                                   *)
(***************************************************************************)
\* Bounds of the capture sessions
MaxCalls == 2
MaxDepth == 2
MaxResets == 1
MaxSessions == 2
MaxAnnotationIds == 2
NumThreads == 2
MaxDirectCalls == 1

Threads == 1..NumThreads

\* the addresses id(ann) can return
AnnotationIds == 1..MaxAnnotationIds

\* foo = MyClass()
Foo == PyObject("MyFunctions", "MyClass", 1)

\* del foo; foo = MyClass(): another instance of MyClass, the second allocation at
\* the address of the first, which was freed
Foo2 ==
    [ty |-> "object", module |-> "MyFunctions", cls |-> "MyClass", addr |-> Foo.addr,
     allocation |-> 2]

\* The annotated calls the producers make: MyFunctions.add(4, 5), which returns 25,
\* foo.f3(aList = [4, 5]), which returns None, and MyFunctions.func2(), which
\* raises MyException(4)
Sites == {"add", "f3", "func2"}

\* bar = ClassWithDummyParameters(); p = NonAnnotatedClass()
Bar == PyObject("MyFunctions", "ClassWithDummyParameters", 2)
P == PyObject("MyFunctions", "NonAnnotatedClass", 3)

\* More annotated calls, of values without a JSON form: bar.f1(p), which returns
\* None, MyFunctions.myPrint(str(NonAnnotatedClass)), which returns None, and
\* MyFunctions.quit(), which calls sys.exit() and so raises SystemExit
ValueSites == {"f1", "myPrint", "quit"}

\* cwc = ClassWithConstructor(4, 5)
Cwc == PyObject("MyFunctions", "ClassWithConstructor", 4)

\* The calls of the programs whose capture is given to the code generator: the
\* calls of Sites, bar.f1(p), cwc = ClassWithConstructor(4, 5), cwc.getX(), which
\* returns 4, foo.f1(), which returns foo, MyFunctions.myPrint(foo),
\* MyFunctions.mySubstring(p, 4), where p[:4] raises TypeError, and
\* ClassWithStaticAndClassMethods.classMethod1(5) and .static1(5), which return None
GenSites ==
    Sites \cup {"f1", "init", "getX", "MyClass.f1", "myPrintFoo", "mySubstring",
                "classMethod1", "static1"}

\* Calls with containers: foo.f5({'x': 1}, None), foo.f5([4, 5], {'x': (4, 5)})
\* and MyFunctions.myPrint(str([4, 5])), which all return None, with add(4, 5),
\* foo.f3(aList = [4, 5]) and MyFunctions.myPrint(foo)
ArgumentSites == {"add", "f3", "f5Dict", "f5", "myPrintList", "myPrintFoo"}

Site(s) ==
    CASE s = "add" ->
            [annotatedObj |-> PyModule("MyFunctions"), funcName |-> "add",
             args |-> <<PyInt(4), PyInt(5)>>, kwargs |-> <<>>,
             raises |-> FALSE, result |-> PyInt(25)]
      [] s = "f3" ->
            [annotatedObj |-> PyClass("MyFunctions", "MyClass"), funcName |-> "f3",
             args |-> <<Foo>>, kwargs |-> <<<<"aList", PyListOf(<<PyInt(4), PyInt(5)>>)>>>>,
             raises |-> FALSE, result |-> PyNone]
      [] s = "func2" ->
            [annotatedObj |-> PyModule("MyFunctions"), funcName |-> "func2",
             args |-> <<>>, kwargs |-> <<>>,
             raises |-> TRUE,
             result |-> PyException("MyFunctions", "MyException", "'4' is not a valid number")]
      [] s = "f1" ->
            [annotatedObj |-> PyClass("MyFunctions", "ClassWithDummyParameters"),
             funcName |-> "f1", args |-> <<Bar, P>>, kwargs |-> <<>>,
             raises |-> FALSE, result |-> PyNone]
      [] s = "myPrint" ->
            [annotatedObj |-> PyModule("MyFunctions"), funcName |-> "myPrint",
             args |-> <<PyStr(pyStr(PyClass("MyFunctions", "NonAnnotatedClass")))>>,
             kwargs |-> <<>>, raises |-> FALSE, result |-> PyNone]
      [] s = "init" ->
            [annotatedObj |-> PyClass("MyFunctions", "ClassWithConstructor"),
             funcName |-> CONSTRUCTOR_SIGNATURE, args |-> <<Cwc, PyInt(4), PyInt(5)>>,
             kwargs |-> <<>>, raises |-> FALSE, result |-> PyNone]
      [] s = "getX" ->
            [annotatedObj |-> PyClass("MyFunctions", "ClassWithConstructor"),
             funcName |-> "getX", args |-> <<Cwc>>, kwargs |-> <<>>,
             raises |-> FALSE, result |-> PyInt(4)]
      [] s = "MyClass.f1" ->
            [annotatedObj |-> PyClass("MyFunctions", "MyClass"), funcName |-> "f1",
             args |-> <<Foo>>, kwargs |-> <<>>, raises |-> FALSE, result |-> Foo]
      [] s = "myPrintFoo" ->
            [annotatedObj |-> PyModule("MyFunctions"), funcName |-> "myPrint",
             args |-> <<Foo>>, kwargs |-> <<>>, raises |-> FALSE, result |-> PyNone]
      [] s = "processListP" ->
            [annotatedObj |-> PyModule("MyFunctions"), funcName |-> "processList",
             args |-> <<PyListOf(<<P>>)>>, kwargs |-> <<>>, raises |-> FALSE, result |-> PyNone]
      [] s = "noParamsFunction" ->
            [annotatedObj |-> PyModule("MyFunctions"), funcName |-> "noParamsFunction",
             args |-> <<>>, kwargs |-> <<>>, raises |-> FALSE,
             result |-> PyObject("MyFunctions", "MyClass", 8)]
      [] s = "f3Again" ->
            [annotatedObj |-> PyClass("MyFunctions", "MyClass"), funcName |-> "f3",
             args |-> <<Foo2>>, kwargs |-> <<<<"aList", PyListOf(<<PyInt(4), PyInt(5)>>)>>>>,
             raises |-> FALSE, result |-> PyNone]
      [] s = "myPrintFooAgain" ->
            [annotatedObj |-> PyModule("MyFunctions"), funcName |-> "myPrint",
             args |-> <<Foo2>>, kwargs |-> <<>>, raises |-> FALSE, result |-> PyNone]
      [] s = "mySubstring" ->
            [annotatedObj |-> PyModule("MyFunctions"), funcName |-> "mySubstring",
             args |-> <<P, PyInt(4)>>, kwargs |-> <<>>,
             raises |-> TRUE,
             result |-> PyException("exceptions", "TypeError", "object has no attribute '__getitem__'")]
      [] s = "f5Dict" ->
            [annotatedObj |-> PyClass("MyFunctions", "MyClass"), funcName |-> "f5",
             args |-> <<Foo, PyDictOf(<<<<PyStr("x"), PyInt(1)>>>>), PyNone>>,
             kwargs |-> <<>>, raises |-> FALSE, result |-> PyNone]
      [] s = "f5" ->
            [annotatedObj |-> PyClass("MyFunctions", "MyClass"), funcName |-> "f5",
             args |-> <<Foo, PyListOf(<<PyInt(4), PyInt(5)>>),
                        PyDictOf(<<<<PyStr("x"), PyTupleOf(<<PyInt(4), PyInt(5)>>)>>>>)>>,
             kwargs |-> <<>>, raises |-> FALSE, result |-> PyNone]
      [] s = "myPrintList" ->
            [annotatedObj |-> PyModule("MyFunctions"), funcName |-> "myPrint",
             args |-> <<PyStr("[4, 5]")>>,
             kwargs |-> <<>>, raises |-> FALSE, result |-> PyNone]
      [] s = "classMethod1" ->
            [annotatedObj |-> PyClass("MyFunctions", "ClassWithStaticAndClassMethods"),
             funcName |-> "classMethod1",
             args |-> <<PyClass("MyFunctions", "ClassWithStaticAndClassMethods"), PyInt(5)>>,
             kwargs |-> <<>>, raises |-> FALSE, result |-> PyNone]
      [] s = "static1" ->
            [annotatedObj |-> PyClass("MyFunctions", "ClassWithStaticAndClassMethods"),
             funcName |-> "static1", args |-> <<PyInt(5)>>,
             kwargs |-> <<>>, raises |-> FALSE, result |-> PyNone]
      [] s = "quit" ->
            [annotatedObj |-> PyModule("MyFunctions"), funcName |-> "quit",
             args |-> <<>>, kwargs |-> <<>>,
             raises |-> TRUE, result |-> PyException("exceptions", "SystemExit", "")]

\* isinstance(e, Exception): SystemExit, KeyboardInterrupt and GeneratorExit derive
\* from BaseException only
isException(e) ==
    e.ty = "exception" /\ e.cls \notin {"SystemExit", "KeyboardInterrupt", "GeneratorExit"}

\* annotatedFunction.newFunction from the call of f on: what the Annotation holds
\* when its __exit__ runs, and the exception that leaves the wrapper (PyNone if
\* none). "except Exception, e" sets (True, e); an exception it does not catch
\* leaves the Annotation as constructed: (False, None)
newFunctionOutcome(site) ==
    IF site.raises /\ isException(site.result)
    THEN [threwException |-> TRUE, returnedObject |-> site.result, raised |-> site.result]
    ELSE IF site.raises
    THEN [threwException |-> FALSE, returnedObject |-> PyNone, raised |-> site.result]
    ELSE [threwException |-> FALSE, returnedObject |-> site.result, raised |-> PyNone]

\* what annotate() registers: every function the producers call
AnnotatedFunctions == {Site(s).funcName : s \in GenSites \cup ValueSites \cup ArgumentSites}

\* the annotation ids of the calls in flight
LiveAnnotations ==
    UNION {{stacks[t][i].annotationId : i \in DOMAIN stacks[t]} : t \in Threads}

\* inspect.getmembers(MyFunctions, inspect.isroutine) of a module with two
\* functions: the names come sorted
RegRoutines == <<"add", "subtract">>
RegNames == {RegRoutines[i] : i \in DOMAIN RegRoutines}

\* what a function name of the module is bound to: 0 is the original function,
\* n + 1 the newFunction that annotatedFunction returns for the function n
Original == 0

\* Annotator.__init__ for the registrations, and the module as imported
RegInit ==
    [funcsToAnnotate |-> <<>>, oldFuncs |-> <<>>, attr |-> [f \in RegNames |-> Original],
     thread |-> "none", queue |-> 0, sessions |-> 0, resets |-> 0, calls |-> 0,
     op |-> [name |-> "init", exc |-> "ok", enqueued |-> 0, session |-> 0]]

Init ==
    /\ reg = RegInit
    /\ annotator = AnnotatorInit
    /\ activeAnnotators = FALSE
    /\ installed = {}
    /\ callerPc = "idle"
    /\ stacks = [t \in Threads |-> <<>>]
    /\ dumpFile = NoneObj
    /\ counters = [calls |-> 0, resets |-> 0, sessions |-> 0, direct |-> 0, active |-> 0, refused |-> 0]
    /\ CgInit
    /\ gen = [pc |-> "none"]

\* annotator.resetForNewAnnotations(), between two sessions
ResetForNewAnnotations ==
    /\ callerPc = "idle"
    /\ counters.resets < MaxResets
    /\ annotator' = resetForNewAnnotations(annotator)
    /\ counters' = [counters EXCEPT !.resets = @ + 1]
    /\ UNCHANGED <<cgVars, gen, reg, activeAnnotators, installed, callerPc, stacks, dumpFile>>

\* annotator.annotate(obj) for the objects whose functions the producers call
Annotate ==
    /\ callerPc = "idle"
    /\ annotator.funcsToAnnotate = {}
    /\ annotator' = [annotator EXCEPT !.funcsToAnnotate = AnnotatedFunctions]
    /\ UNCHANGED <<cgVars, gen, reg, activeAnnotators, installed, callerPc, stacks, dumpFile, counters>>

\* Mutant of startAnnotations: the test of Annotator.activeAnnotators is missing.
startAnnotationsNoCheck(a, active, inst) ==
    [exc |-> "ok", activeAnnotators |-> TRUE,
     installed |-> inst \cup a.funcsToAnnotate,
     a |-> [a EXCEPT !.oldFuncs = @ \cup a.funcsToAnnotate]]

\* Annotator.startAnnotations: raises if the class flag is set, else sets it and
\* replaces every function of funcsToAnnotate, keeping the old one in oldFuncs
startAnnotations(a, active, inst) ==
    IF active
    THEN [exc |-> "Only one annotator instance allowed.", activeAnnotators |-> active,
          installed |-> inst, a |-> a]
    ELSE [exc |-> "ok", activeAnnotators |-> TRUE,
          installed |-> inst \cup a.funcsToAnnotate,
          a |-> [a EXCEPT !.oldFuncs = @ \cup a.funcsToAnnotate]]

\* ProgramExecutionDumper.__enter__ -> Annotator.startAnnotations, between two
\* sessions or inside the with block of a session
StartAnnotations ==
    /\ callerPc \in {"idle", "active"}
    /\ counters.sessions < MaxSessions
    /\ LET r == startAnnotations(annotator, activeAnnotators, installed)
       IN  /\ annotator' = r.a
           /\ activeAnnotators' = r.activeAnnotators
           /\ installed' = r.installed
           /\ callerPc' = IF r.exc = "ok" THEN "active" ELSE callerPc
           /\ counters' = [counters EXCEPT !.sessions = @ + 1,
                                           !.active = IF r.exc = "ok" THEN @ + 1 ELSE @,
                                           !.refused = IF r.exc = "ok" THEN @ ELSE @ + 1]
    /\ UNCHANGED <<cgVars, gen, reg, stacks, dumpFile>>

\* Annotator.finishAnnotations up to the put of END_ANNOTATION
FinishAnnotations ==
    /\ callerPc = "active"
    /\ activeAnnotators' = FALSE
    /\ annotator' = [annotator EXCEPT !.callGraphQueue = Append(@, [type |-> END_ANNOTATION])]
    /\ callerPc' = "joining"
    /\ counters' = [counters EXCEPT !.active = @ - 1]
    /\ UNCHANGED <<cgVars, gen, reg, installed, stacks, dumpFile>>

\* Annotator.finishAnnotations from annotatorThread_.join() on: join returns once
\* the thread is no longer alive; None.join() raises AttributeError and the
\* dumper's __exit__ is left before the dump; restoreFunctions runs in both cases
Join ==
    /\ callerPc = "joining"
    /\ annotator.annotatorThread.alive # "running"
    /\ installed' = installed \ annotator.funcsToAnnotate
    /\ callerPc' = IF annotator.annotatorThread.alive = "none" THEN "idle" ELSE "dumping"
    /\ UNCHANGED <<cgVars, gen, reg, annotator, activeAnnotators, stacks, dumpFile, counters>>

\* ProgramExecutionDumper.__exit__ -> Annotator.dumpProgramExecution
DumpProgramExecution ==
    /\ callerPc = "dumping"
    /\ dumpFile' = dumpProgramExecutionAsJsonMap(annotator.programExecution)
    /\ callerPc' = "idle"
    /\ UNCHANGED <<cgVars, gen, reg, annotator, activeAnnotators, installed, stacks, counters>>

\* annotatedFunction.newFunction: the callee passed to functionStarted is the
\* annotated object, or self (the first argument) for a plain method of a class
newFunctionCallee(site) ==
    LET theLanguageType == getLanguageType(site.annotatedObj)
        inspectMethodType == getInspectMethodType(site.annotatedObj, site.funcName)
    IN  IF theLanguageType = LT_CLASS
           /\ ~(inspectMethodType = "class method" \/ inspectMethodType = "static method")
        THEN site.args[1]
        ELSE site.annotatedObj

\* annotatedFunction.newFunction up to the call of f, in producer thread t of a
\* program that makes maxCalls calls at most
NewFunctionEnterUpTo(t, s, annotationId, maxCalls) ==
    /\ Site(s).funcName \in installed
    /\ Len(stacks[t]) < MaxDepth
    /\ counters.calls < maxCalls
    /\ annotationId \notin LiveAnnotations
    /\ annotator' = functionStarted(annotator, annotationId, newFunctionCallee(Site(s)),
                                    Site(s).funcName, Site(s).args, Site(s).kwargs)
    /\ stacks' = [stacks EXCEPT ![t] = Append(@, [annotationId |-> annotationId, site |-> s])]
    /\ counters' = [counters EXCEPT !.calls = @ + 1]
    /\ UNCHANGED <<cgVars, gen, reg, activeAnnotators, installed, callerPc, dumpFile>>

NewFunctionEnter(t, s, annotationId) == NewFunctionEnterUpTo(t, s, annotationId, MaxCalls)

\* annotatedFunction.newFunction from the return of f on: Annotation.__exit__
NewFunctionExit(t) ==
    /\ stacks[t] # <<>>
    /\ LET ann == stacks[t][Len(stacks[t])]
           site == Site(ann.site)
           outcome == newFunctionOutcome(site)
       IN  annotator' = functionEnded(annotator, ann.annotationId, outcome.threwException,
                                      outcome.returnedObject)
    /\ stacks' = [stacks EXCEPT ![t] = SubSeq(@, 1, Len(@) - 1)]
    /\ UNCHANGED <<cgVars, gen, reg, activeAnnotators, installed, callerPc, dumpFile, counters>>

\* AnnotatorThread.run: one item of the queue
\* Mutant of Run: the thread goes on with the queue after it has raised.
RunAfterCrash ==
    /\ annotator.annotatorThread.alive \in {"running", "crashed"}
    /\ annotator.callGraphQueue # <<>>
    /\ annotator' = run(annotator)
    /\ UNCHANGED <<cgVars, gen, reg, activeAnnotators, installed, callerPc, stacks, dumpFile, counters>>

Run ==
    /\ annotator.annotatorThread.alive = "running"
    /\ annotator.callGraphQueue # <<>>
    /\ annotator' = run(annotator)
    /\ UNCHANGED <<cgVars, gen, reg, activeAnnotators, installed, callerPc, stacks, dumpFile, counters>>

\* a caller of the public Annotator.functionEnded other than the wrapper
DirectFunctionEnded ==
    /\ counters.direct < MaxDirectCalls
    /\ \E annotationId \in AnnotationIds :
           annotator' = functionEnded(annotator, annotationId, FALSE, PyNone)
    /\ counters' = [counters EXCEPT !.direct = @ + 1]
    /\ UNCHANGED <<cgVars, gen, reg, activeAnnotators, installed, callerPc, stacks, dumpFile>>

Next ==
    \/ ResetForNewAnnotations
    \/ Annotate
    \/ StartAnnotations
    \/ FinishAnnotations
    \/ Join
    \/ DumpProgramExecution
    \/ \E t \in Threads, s \in Sites, annotationId \in AnnotationIds :
           NewFunctionEnter(t, s, annotationId)
    \/ \E t \in Threads : NewFunctionExit(t)
    \/ Run

NextEvents ==
    \/ Next
    \/ DirectFunctionEnded

vars == <<cgVars, capVars, gen, reg>>

Spec == Init /\ [][Next]_vars

SpecEvents == Init /\ [][NextEvents]_vars

\* a single-threaded program that also makes the calls of ValueSites
NextValues ==
    \/ ResetForNewAnnotations
    \/ Annotate
    \/ StartAnnotations
    \/ FinishAnnotations
    \/ Join
    \/ DumpProgramExecution
    \/ \E s \in Sites \cup ValueSites, annotationId \in AnnotationIds :
           NewFunctionEnter(1, s, annotationId)
    \/ NewFunctionExit(1)
    \/ Run

SpecValues == Init /\ [][NextValues]_vars

\* a session of a single-threaded program that makes calls of ArgumentSites,
\* up to its last call
MaxArgumentCalls == 3

NextArguments ==
    \/ ResetForNewAnnotations
    \/ Annotate
    \/ StartAnnotations
    \/ \E s \in ArgumentSites, annotationId \in AnnotationIds :
           NewFunctionEnterUpTo(1, s, annotationId, MaxArgumentCalls)
    \/ NewFunctionExit(1)
    \/ Run

SpecArguments == Init /\ [][NextArguments]_vars

SpecCG == Init /\ [][CgNext]_vars

(***************************************************************************)
(* Claims on the call-graph model and the serializer (SpecCG)              *)
(***************************************************************************)
(* code_generator.py: PythonTokensGenerator and CodeGenerator.  The text   *)
(* written to fp is a sequence of statements (one per line), each a        *)
(* sequence of tokens with its indentation counted in indentation units;   *)
(* "(" and ")" of calls are tokens of their own.                           *)
(***************************************************************************)
\* GeneratedSourceType
MAIN_FILE == 0
MAIN_FILE_WITH_ASSERTS == 1
UNIT_TEST == 2

\* CodeGenerator.ALL_LEVELS
ALL_LEVELS == 0 - 1

\* TokensGenerator.*_NAME_PREFIX
INSTANCE_NAME_PREFIX == "var"
MODULE_NAME_PREFIX == "mod"
CLASS_NAME_PREFIX == "cls"

\* PythonConstants.BUILTINS_MODULE_NAMES
BUILTINS_MODULE_NAMES == {BUILTINS_MODULE_NAME}

\* the strs of StrLiterals longer than MAX_LENGTH_FOR_NOT_DECLARING (50): none
LongStrLiterals == {}

\* repr(s) of a str, and eval of such a repr
pyRepr(s) == "'" \o s \o "'"
pyEval(text) == CHOOSE s \in StrLiterals : pyRepr(s) = text

\* TokensGenerator.VariableInfo
VariableInfo(varName, declarationType, useVarNameForRepr, pythonObject) ==
    [varName |-> varName, declarationType |-> declarationType,
     useVarNameForRepr |-> useVarNameForRepr, pythonObject |-> pythonObject]

AuxiliarClassForDummy(classString) ==
    [ty |-> "AuxiliarClassForDummy", classString |-> classString]

\* getClassStringForDummy, for the AuxiliarClassForDummy instances it is given
getClassStringForDummy(obj) == obj.classString

\* one line written to fp: what wrote it (kind), the LanguageObject it declares
\* or constructs (lo, an id or 0), the FunctionCall it calls (call, an id or 0)
Statement(kind, lo, call, indent, tokens) ==
    [kind |-> kind, lo |-> lo, call |-> call, indent |-> indent, tokens |-> tokens]

\* PythonTokensGenerator.__init__
TokensGeneratorInit(aProgramExecution, sourceType) ==
    [idsToVariableInfo |-> <<>>, indentation |-> 0, initSpaces |-> 0,
     programExecution |-> aProgramExecution, sourceType |-> sourceType,
     nextModuleIndex |-> 0, nextClassIndex |-> 0, nextInstanceIndex |-> 0]

\* TokensGenerator.newFunctionLevel
newFunctionLevel(tg, level) == [tg EXCEPT !.indentation = tg.initSpaces + level]

\* PythonTokensGenerator._mustUseVarNameForRepr
mustUseVarNameForRepr(myObj) ==
    IF myObj.ty = "NoneType" THEN FALSE
    ELSE IF myObj.ty = "int" THEN FALSE
    ELSE IF myObj.ty = "str" THEN myObj.s \in LongStrLiterals
    ELSE IF myObj.ty = "list" THEN TRUE
    ELSE FALSE

\* PythonTokensGenerator._getDeclarationCodeFromObject
getDeclarationCodeFromObject(myObj) ==
    IF myObj.ty = "NoneType" THEN <<"None">>
    ELSE IF myObj.ty = "int" THEN <<ToString(myObj.i)>>
    ELSE IF myObj.ty = "str" THEN <<pyRepr(myObj.s)>>
    ELSE <<"dummy.Dummy", "(", pyRepr(getClassStringForDummy(myObj)), ")">>

\* TokensGenerator.getObjectRepresentation
getObjectRepresentation(tg, aLanguageObject) ==
    IF ~has_key(tg.idsToVariableInfo, aLanguageObject.id) THEN <<"AssertionError">>
    ELSE IF tg.idsToVariableInfo[aLanguageObject.id].useVarNameForRepr
    THEN <<tg.idsToVariableInfo[aLanguageObject.id].varName>>
    ELSE getDeclarationCodeFromObject(tg.idsToVariableInfo[aLanguageObject.id].pythonObject)

\* eval(self.getObjectRepresentation(classObject)): the name of a declared class
evalRepresentation(tg, aLanguageObject) == pyEval(getObjectRepresentation(tg, aLanguageObject)[1])

\* TokensGenerator._calculateModuleVariableInfo
calculateModuleVariableInfo(tg, moduleObject) ==
    [tg |-> [tg EXCEPT !.nextModuleIndex = @ + 1],
     varInfo |-> VariableInfo(MODULE_NAME_PREFIX \o ToString(tg.nextModuleIndex), DT_FIXED_VALUE,
                              FALSE, fromJsonString(moduleObject.declarationCode))]

\* TokensGenerator._calculateClassVariableInfo
calculateClassVariableInfo(tg, classObject) ==
    [tg |-> [tg EXCEPT !.nextClassIndex = @ + 1],
     varInfo |-> VariableInfo(CLASS_NAME_PREFIX \o ToString(tg.nextClassIndex), DT_FIXED_VALUE,
                              FALSE, fromJsonString(classObject.declarationCode))]

\* Mutant of calculateInstanceVariableInfo: nextInstanceIndex_ is not incremented.
calculateInstanceVariableInfoSameIndex(tg, instanceObject) ==
    [tg |-> tg,
     varInfo |->
        LET instanceName == INSTANCE_NAME_PREFIX \o ToString(tg.nextInstanceIndex)
        IN  IF instanceObject.declarationType = DT_CONSTRUCTOR
            THEN VariableInfo(instanceName, DT_CONSTRUCTOR, TRUE,
                              fromJsonString(instanceObject.declarationCode))
            ELSE IF instanceObject.declarationType = DT_FIXED_VALUE
            THEN VariableInfo(instanceName, DT_FIXED_VALUE,
                              mustUseVarNameForRepr(fromJsonString(instanceObject.declarationCode)),
                              fromJsonString(instanceObject.declarationCode))
            ELSE VariableInfo(instanceName, DT_FIXED_VALUE, FALSE,
                              AuxiliarClassForDummy(evalRepresentation(tg, instanceObject.parent)))]

\* TokensGenerator._calculateInstanceVariableInfo
calculateInstanceVariableInfo(tg, instanceObject) ==
    [tg |-> [tg EXCEPT !.nextInstanceIndex = @ + 1],
     varInfo |->
        LET instanceName == INSTANCE_NAME_PREFIX \o ToString(tg.nextInstanceIndex)
        IN  IF instanceObject.declarationType = DT_CONSTRUCTOR
            THEN VariableInfo(instanceName, DT_CONSTRUCTOR, TRUE,
                              fromJsonString(instanceObject.declarationCode))
            ELSE IF instanceObject.declarationType = DT_FIXED_VALUE
            THEN VariableInfo(instanceName, DT_FIXED_VALUE,
                              mustUseVarNameForRepr(fromJsonString(instanceObject.declarationCode)),
                              fromJsonString(instanceObject.declarationCode))
            ELSE VariableInfo(instanceName, DT_FIXED_VALUE, FALSE,
                              AuxiliarClassForDummy(evalRepresentation(tg, instanceObject.parent)))]

\* PythonTokensGenerator._declareModule
declareModule(tg, moduleInfo) ==
    LET moduleName == pyEval(getDeclarationCodeFromObject(moduleInfo.pythonObject)[1])
    IN  IF moduleName \in BUILTINS_MODULE_NAMES THEN <<>>
        ELSE <<Statement("import", 0, 0, tg.indentation,
                   <<"import ", moduleName>>
                   \o (IF moduleInfo.useVarNameForRepr THEN <<" as ", moduleInfo.varName>> ELSE <<>>))>>

\* PythonTokensGenerator._declareClass
declareClass(tg, classInfo) ==
    IF ~classInfo.useVarNameForRepr THEN <<>>
    ELSE <<Statement("declare", 0, 0, tg.indentation,
               <<classInfo.varName, " = ">> \o getDeclarationCodeFromObject(classInfo.pythonObject))>>

RECURSIVE declareLanguageObject(_, _)
RECURSIVE declareChildrenOfList(_, _, _, _)

\* PythonTokensGenerator._declareInstance, the loop over the ids of a list: the
\* declarations of the children and the tokens of the list's elements
declareChildrenOfList(tg, ids, childrenDeclCode, elements) ==
    IF ids = <<>> THEN [exc |-> "ok", tg |-> tg, decl |-> childrenDeclCode, tokens |-> elements]
    ELSE Bind(<<tg.programExecution.languageObjects[Head(ids)], Tail(ids), childrenDeclCode, elements>>, LAMBDA c :
         Bind(declareLanguageObject(tg, c[1]), LAMBDA d :
             IF d.exc # "ok" THEN [exc |-> d.exc, tg |-> d.tg, decl |-> c[3], tokens |-> c[4]]
             ELSE declareChildrenOfList(d.tg, c[2], c[3] \o d.decl,
                      c[4] \o (IF c[4] = <<>> THEN <<>> ELSE <<", ">>)
                           \o getObjectRepresentation(d.tg, c[1]))))

\* PythonTokensGenerator._declareInstance (objType is not defined in it: the
\* branch of a named value that is neither a list nor a dict raises NameError)
declareInstance(tg, lo, instanceInfo) ==
    IF instanceInfo.declarationType # DT_CONSTRUCTOR /\ instanceInfo.useVarNameForRepr
    THEN IF instanceInfo.pythonObject.ty = "list"
         THEN Bind(declareChildrenOfList(tg, instanceInfo.pythonObject.ids, <<>>, <<>>), LAMBDA ch :
                  [exc |-> ch.exc, tg |-> ch.tg,
                   decl |-> ch.decl \o
                       <<Statement("declare", lo.id, 0, tg.indentation,
                             <<instanceInfo.varName, " = ", "[">> \o ch.tokens \o <<"]">>)>>])
         ELSE [exc |-> "NameError", tg |-> tg, decl |-> <<>>]
    ELSE [exc |-> "ok", tg |-> tg, decl |-> <<>>]

\* TokensGenerator.declareLanguageObject: the declaration code of an object that
\* was not declared before in this generation, and its VariableInfo registered
declareLanguageObject(tg, aLanguageObject) ==
    IF has_key(tg.idsToVariableInfo, aLanguageObject.id)
    THEN [exc |-> "ok", tg |-> tg, decl |-> <<>>]
    ELSE IF aLanguageObject.languageType = LT_MODULE
    THEN Bind(calculateModuleVariableInfo(tg, aLanguageObject), LAMBDA c :
             [exc |-> "ok",
              tg |-> [c.tg EXCEPT !.idsToVariableInfo = dictSet(@, aLanguageObject.id, c.varInfo)],
              decl |-> declareModule(c.tg, c.varInfo)])
    ELSE IF aLanguageObject.languageType = LT_CLASS
    THEN Bind(calculateClassVariableInfo(tg, aLanguageObject), LAMBDA c :
             [exc |-> "ok",
              tg |-> [c.tg EXCEPT !.idsToVariableInfo = dictSet(@, aLanguageObject.id, c.varInfo)],
              decl |-> declareClass(c.tg, c.varInfo)])
    ELSE Bind(calculateInstanceVariableInfo(tg, aLanguageObject), LAMBDA c :
         Bind(declareInstance(c.tg, aLanguageObject, c.varInfo), LAMBDA d :
             IF d.exc # "ok" THEN d
             ELSE [exc |-> "ok",
                   tg |-> [d.tg EXCEPT !.idsToVariableInfo = dictSet(@, aLanguageObject.id, c.varInfo)],
                   decl |-> d.decl]))

\* Mutant of mustDefaultConstruct: the method type of the call is not looked at.
mustDefaultConstructAnyCall(aLanguageObject, firstCall) ==
    aLanguageObject.languageType = LT_INSTANCE

\* PythonTokensGenerator.mustDefaultConstruct
mustDefaultConstruct(aLanguageObject, firstCall) ==
    aLanguageObject.languageType = LT_INSTANCE /\ firstCall.methodType # MT_CONSTRUCTOR

\* PythonTokensGenerator.defaultConstruct
defaultConstruct(tg, aLanguageObject) ==
    Statement("construct", aLanguageObject.id, 0, tg.indentation,
        <<tg.idsToVariableInfo[aLanguageObject.id].varName, " = ",
          evalRepresentation(tg, aLanguageObject.parent), "(", ")">>)

\* PythonTokensGenerator.methodIsConstructor
methodIsConstructor(aLanguageObject, aCall) ==
    aLanguageObject.languageType = LT_INSTANCE /\ aCall.functionName = CONSTRUCTOR_SIGNATURE

\* PythonTokensGenerator.methodCall, without the indentation
methodCall(tg, aFunctionCall) ==
    IF aFunctionCall.callee.languageType \in {LT_MODULE, LT_CLASS}
    THEN (IF aFunctionCall.callee.languageType = LT_CLASS
             \/ evalRepresentation(tg, aFunctionCall.callee) \notin BUILTINS_MODULE_NAMES
          THEN <<evalRepresentation(tg, aFunctionCall.callee), ".">>
          ELSE <<>>) \o <<aFunctionCall.functionName>>
    ELSE IF aFunctionCall.methodType = MT_CONSTRUCTOR
    THEN getObjectRepresentation(tg, aFunctionCall.callee)
             \o <<" = ", evalRepresentation(tg, aFunctionCall.callee.parent)>>
    ELSE getObjectRepresentation(tg, aFunctionCall.callee) \o <<".", aFunctionCall.functionName>>

\* Mutant of mustSkipArgument: only the self of a call on an instance is skipped.
mustSkipArgumentInstanceOnly(aFunctionCall, arg, argCount) ==
    argCount = 0 /\ aFunctionCall.callee.languageType = LT_INSTANCE

\* PythonTokensGenerator.mustSkipArgument
mustSkipArgument(aFunctionCall, arg, argCount) ==
    argCount = 0 /\ (aFunctionCall.methodType = MT_CLASS_METHOD
                     \/ aFunctionCall.callee.languageType = LT_INSTANCE)

\* PythonTokensGenerator.returnedObjectFunctionPrefix, without initSpaces_
returnedObjectFunctionPrefix(tg, returnedObject, threwException) ==
    IF tg.sourceType = UNIT_TEST
    THEN IF threwException
         THEN <<"self.assertRaises", "(", evalRepresentation(tg, returnedObject.parent), ", ">>
         ELSE <<"self.assertEqual", "(">> \o getObjectRepresentation(tg, returnedObject) \o <<", ">>
    ELSE <<>>

\* PythonTokensGenerator.returnedObjectFunctionPosfix
returnedObjectFunctionPosfix(tg, returnedObject, threwException) ==
    IF tg.sourceType = UNIT_TEST THEN <<")">> ELSE <<>>

\* generateEquivalentProgram, the loop over the arguments of a call: the
\* declarations written to fp and argsListStr
RECURSIVE declareArgsList(_, _, _, _, _, _)
declareArgsList(tg, aCall, argsList, currentArg, decl, argsListStr) ==
    IF currentArg >= Len(argsList)
    THEN [exc |-> "ok", tg |-> tg, decl |-> decl, argsListStr |-> argsListStr]
    ELSE Bind(<<argsList[currentArg + 1], decl, argsListStr>>, LAMBDA c :
         Bind(declareLanguageObject(tg, c[1].languageObject), LAMBDA d :
             IF d.exc # "ok" THEN [exc |-> d.exc, tg |-> d.tg, decl |-> c[2], argsListStr |-> c[3]]
             ELSE declareArgsList(d.tg, aCall, argsList, currentArg + 1, c[2] \o d.decl,
                      IF mustSkipArgument(aCall, c[1].languageObject, currentArg) THEN c[3]
                      ELSE c[3] \o (IF c[1].name # NoneName THEN <<c[1].name, " = ">> ELSE <<>>)
                                \o getObjectRepresentation(d.tg, c[1].languageObject)
                                \o (IF currentArg < Len(argsList) - 1 THEN <<", ">> ELSE <<>>))))

\* methodCallStr.rfind('(')
rfindParen(methodCallStr) ==
    IF \E i \in DOMAIN methodCallStr : methodCallStr[i] = "(" 
    THEN CHOOSE i \in DOMAIN methodCallStr :
             /\ methodCallStr[i] = "("
             /\ \A j \in DOMAIN methodCallStr : methodCallStr[j] = "(" => j <= i
    ELSE 0

\* generateEquivalentProgram, "For assertRaises to work": the call is turned into
\* the arguments of assertRaises
forAssertRaises(methodCallStr) ==
    IF Len(methodCallStr) >= 2 /\ methodCallStr[Len(methodCallStr) - 1] = "("
       /\ methodCallStr[Len(methodCallStr)] = ")"
    THEN SubSeq(methodCallStr, 1, Len(methodCallStr) - 2)
    ELSE SubSeq(methodCallStr, 1, rfindParen(methodCallStr) - 1) \o <<", ">>
         \o SubSeq(methodCallStr, rfindParen(methodCallStr) + 1, Len(methodCallStr) - 1)

\* generateEquivalentProgram, from "returnedObject = aCall.getReturnedObject()" to
\* the constructor check: the declaration written, functionPrefix with the number
\* of its leading indentation units, functionPosfix and methodCallStr
returnedObjectCode(tg, aCall, methodCallStr) ==
    IF aCall.returnedObject = NoneObj
    THEN [exc |-> "ok", tg |-> tg, decl |-> <<>>, spaces |-> 0, functionPrefix |-> <<>>,
          functionPosfix |-> <<>>, methodCallStr |-> methodCallStr]
    ELSE IF aCall.returnedObject.declarationType # DT_CONSTRUCTOR
    THEN Bind(IF tg.sourceType = UNIT_TEST THEN declareLanguageObject(tg, aCall.returnedObject)
              ELSE [exc |-> "ok", tg |-> tg, decl |-> <<>>], LAMBDA d :
             [exc |-> d.exc, tg |-> d.tg, decl |-> d.decl, spaces |-> d.tg.initSpaces,
              functionPrefix |->
                  IF d.exc = "ok"
                  THEN returnedObjectFunctionPrefix(d.tg, aCall.returnedObject, aCall.threwException)
                  ELSE <<>>,
              functionPosfix |->
                  returnedObjectFunctionPosfix(d.tg, aCall.returnedObject, aCall.threwException),
              methodCallStr |->
                  IF tg.sourceType = UNIT_TEST /\ aCall.threwException
                  THEN forAssertRaises(methodCallStr) ELSE methodCallStr])
    ELSE Bind(declareLanguageObject(tg, aCall.returnedObject), LAMBDA d :
             [exc |-> d.exc, tg |-> d.tg, decl |-> <<>>, spaces |-> d.tg.initSpaces,
              functionPrefix |->
                  IF d.exc = "ok" THEN getObjectRepresentation(d.tg, aCall.returnedObject) \o <<" = ">>
                  ELSE <<>>,
              functionPosfix |-> <<>>, methodCallStr |-> methodCallStr])

\* Mutant of levelSelected: a single level selects the calls at that level and below.
levelSelectedUpTo(searchLevel, level) == searchLevel = ALL_LEVELS \/ level <= searchLevel

\* generateEquivalentProgram: the level filter
levelSelected(searchLevel, level) == searchLevel = ALL_LEVELS \/ searchLevel = level

\* generateEquivalentProgram, one turn of "for aCall in theCalls": g holds the
\* tokens generator, constructedObjectIds, previousLevel and what was written
generateCall(g, aCall) ==
    IF ~levelSelected(g.searchLevel, aCall.level) THEN g
    ELSE
    Bind(IF aCall.level # g.previousLevel THEN newFunctionLevel(g.tg, aCall.level) ELSE g.tg, LAMBDA tg0 :
    Bind(declareLanguageObject(tg0, aCall.callee), LAMBDA dc :
    IF dc.exc # "ok" THEN [g EXCEPT !.exc = dc.exc, !.tg = dc.tg, !.previousLevel = aCall.level]
    ELSE
    Bind(aCall.callee.id \notin g.constructedObjectIds /\ mustDefaultConstruct(aCall.callee, aCall), LAMBDA construct :
    Bind(IF aCall.methodType # MT_DESTRUCTOR
         THEN declareArgsList(dc.tg, aCall, aCall.argsList, 0, <<>>, <<>>)
         ELSE [exc |-> "ok", tg |-> dc.tg, decl |-> <<>>, argsListStr |-> <<>>], LAMBDA da :
    Bind(g.out \o dc.decl \o (IF construct THEN <<defaultConstruct(dc.tg, aCall.callee)>> ELSE <<>>)
               \o da.decl, LAMBDA out1 :
    Bind(IF construct THEN g.constructedObjectIds \cup {aCall.callee.id}
         ELSE g.constructedObjectIds, LAMBDA constructed1 :
    IF da.exc # "ok"
    THEN [g EXCEPT !.exc = da.exc, !.tg = da.tg, !.previousLevel = aCall.level, !.out = out1,
                   !.constructedObjectIds = constructed1]
    ELSE
    Bind(methodCall(dc.tg, aCall)
             \o (IF aCall.methodType # MT_DESTRUCTOR THEN <<"(">> \o da.argsListStr \o <<")">>
                 ELSE <<>>), LAMBDA methodCallStr :
    Bind(returnedObjectCode(da.tg, aCall, methodCallStr), LAMBDA r :
    IF r.exc # "ok"
    THEN [g EXCEPT !.exc = r.exc, !.tg = r.tg, !.previousLevel = aCall.level,
                   !.out = out1 \o r.decl, !.constructedObjectIds = constructed1]
    ELSE
    [g EXCEPT
        !.tg = r.tg,
        !.previousLevel = aCall.level,
        !.constructedObjectIds =
            IF methodIsConstructor(aCall.callee, aCall) THEN constructed1 \cup {aCall.callee.id}
            ELSE constructed1,
        !.out = out1 \o r.decl \o
            <<Statement("call", 0, aCall.id,
                  (IF methodIsConstructor(aCall.callee, aCall) THEN r.tg.initSpaces ELSE r.spaces)
                      + (IF r.functionPrefix # <<>> THEN 0 ELSE dc.tg.indentation),
                  (IF methodIsConstructor(aCall.callee, aCall) THEN <<>> ELSE r.functionPrefix)
                      \o r.methodCallStr
                      \o (IF methodIsConstructor(aCall.callee, aCall) THEN <<>>
                          ELSE r.functionPosfix))>>]))))))))

\* _mustUseDummy
mustUseDummy(functionCalls) ==
    \E i \in DOMAIN functionCalls : \E j \in DOMAIN functionCalls[i].argsList :
        functionCalls[i].argsList[j].languageObject.declarationType = DT_DUMMY

\* generateEquivalentProgram, "#Declare Modules" and "#Declare classes": the
\* objects of one LanguageType declared in the order of their ids
RECURSIVE declareAllOfType(_, _, _, _)
declareAllOfType(tg, languageType, ids, decl) ==
    IF ids = <<>> THEN [tg |-> tg, decl |-> decl]
    ELSE Bind(<<tg.programExecution.languageObjects[Head(ids)], Tail(ids), decl>>, LAMBDA c :
             IF c[1].languageType # languageType THEN declareAllOfType(tg, languageType, c[2], c[3])
             ELSE Bind(declareLanguageObject(tg, c[1]), LAMBDA d :
                      declareAllOfType(d.tg, languageType, c[2], c[3] \o d.decl)))

\* PythonTokensGenerator.beginMain
beginMain(tg) ==
    IF tg.sourceType = UNIT_TEST
    THEN [tg |-> [tg EXCEPT !.initSpaces = 2, !.indentation = 2],
          code |-> <<Statement("code", 0, 0, 0, <<"class ", "UNIT_TEST_CASE", "(unittest.TestCase):">>),
                     Statement("code", 0, 0, 1, <<"def test_main(self):">>)>>]
    ELSE [tg |-> tg, code |-> <<>>]

\* PythonTokensGenerator.initialFileCode
initialFileCode(tg) ==
    IF tg.sourceType = UNIT_TEST THEN <<Statement("code", 0, 0, 0, <<"import unittest">>)>>
    ELSE <<>>

\* PythonTokensGenerator.finalFileCode
finalFileCode(tg) ==
    IF tg.sourceType = UNIT_TEST
    THEN <<Statement("code", 0, 0, 0, <<>>),
           Statement("code", 0, 0, 0, <<"if __name__ == '__main__':">>),
           Statement("code", 0, 0, 1, <<"unittest.main()">>)>>
    ELSE <<>>

\* PythonTokensGenerator.declareDummyClass
declareDummyClass(tg) ==
    Statement("import", 0, 0, tg.indentation, <<"from code_cropper import dummy">>)

\* generateEquivalentProgram up to "for aCall in theCalls"
generateProlog(aProgramExecution, searchLevel, sourceType) ==
    Bind(TokensGeneratorInit(aProgramExecution, sourceType), LAMBDA tg0 :
    Bind(SortedIds(DOMAIN aProgramExecution.languageObjects), LAMBDA ids :
    Bind(declareAllOfType(tg0, LT_MODULE, ids, <<>>), LAMBDA m :
    Bind(declareAllOfType(m.tg, LT_CLASS, ids, <<>>), LAMBDA c :
    Bind(beginMain(c.tg), LAMBDA b :
        [exc |-> "ok", tg |-> b.tg, searchLevel |-> searchLevel,
         constructedObjectIds |-> {}, previousLevel |-> 0 - 1,
         out |-> initialFileCode(tg0)
                 \o (IF mustUseDummy(aProgramExecution.functionCalls)
                     THEN <<declareDummyClass(tg0)>> ELSE <<>>)
                 \o m.decl \o c.decl \o <<Statement("code", 0, 0, 0, <<>>)>> \o b.code])))))

(***************************************************************************)
(* SpecGen: a program is captured, dumped, loaded by a CodeGenerator and   *)
(* generateEquivalentProgram writes its equivalent, one call per step.     *)
(***************************************************************************)
\* the calls made inside the first call of a program
GenInnerSites == {"MyClass.f1", "init", "add"}

\* the levels asked for
GenLevels == {ALL_LEVELS, 0, 1}

GeneratedSourceTypes == {MAIN_FILE, MAIN_FILE_WITH_ASSERTS, UNIT_TEST}

\* AnnotatorThread.run until the thread ends or the queue is empty
RECURSIVE runAll(_)
runAll(a) ==
    IF a.annotatorThread.alive # "running" \/ a.callGraphQueue = <<>> THEN a
    ELSE Bind(run(a), LAMBDA a1 : runAll(a1))

\* the wrapper of one call around the events of the calls made inside it
callEvents(a, s, annotationId, inner) ==
    Bind(functionStarted(a, annotationId, newFunctionCallee(Site(s)), Site(s).funcName,
                         Site(s).args, Site(s).kwargs), LAMBDA a1 :
    Bind(IF inner = "none" THEN a1
         ELSE functionEnded(
                  functionStarted(a1, annotationId + 1, newFunctionCallee(Site(inner)),
                                  Site(inner).funcName, Site(inner).args, Site(inner).kwargs),
                  annotationId + 1, newFunctionOutcome(Site(inner)).threwException,
                  newFunctionOutcome(Site(inner)).returnedObject), LAMBDA a2 :
        functionEnded(a2, annotationId, newFunctionOutcome(Site(s)).threwException,
                      newFunctionOutcome(Site(s)).returnedObject)))

\* the ProgramExecution of a session in which first is called, inner inside it
\* and second after it ("none": no such call), as the AnnotatorThread leaves it
captureProgram(first, inner, second) ==
    Bind(callEvents(resetForNewAnnotations(AnnotatorInit), first, 1, inner), LAMBDA a1 :
    Bind(IF second = "none" THEN a1 ELSE callEvents(a1, second, 3, "none"), LAMBDA a2 :
        runAll([a2 EXCEPT !.callGraphQueue = Append(@, [type |-> END_ANNOTATION])]).programExecution))

\* CodeGenerator.__init__: the ProgramExecution loaded from the dump
CodeGeneratorInit(callGraphStream) ==
    loadProgramExecutionFromJsonMap(callGraphStream.doc, <<"aList">>).pe

NoGeneration == [pc |-> "none"]

\* the programs that are generated from: the constructor of an object runs
\* before the other calls on it
programsToGenerate ==
    {p \in GenSites \X (GenInnerSites \cup {"none"}) \X (GenSites \cup {"none"}) :
        /\ p[2] = "init" => p[1] \notin {"init", "getX"}
        /\ p[3] = "init" => p[1] \notin {"init", "getX"} /\ p[2] # "init"}

\* CodeGenerator(dumpFile).generateEquivalentProgram(fp, searchLevel, sourceType)
\* up to the loop over the calls
GenerateEquivalentProgram ==
    /\ gen = NoGeneration
    /\ \E p \in programsToGenerate, searchLevel \in GenLevels,
          sourceType \in GeneratedSourceTypes :
          gen' = [pc |-> "calls", pos |-> 1,
                  g |-> generateProlog(
                            CodeGeneratorInit(dumpProgramExecutionAsJsonMap(
                                captureProgram(p[1], p[2], p[3]))),
                            searchLevel, sourceType)]
    /\ UNCHANGED <<cgVars, capVars, reg>>

\* generateEquivalentProgram: one turn of the loop over the calls
GenerateCall ==
    /\ gen.pc = "calls"
    /\ gen.pos <= Len(gen.g.tg.programExecution.functionCalls)
    /\ LET g1 == generateCall(gen.g, gen.g.tg.programExecution.functionCalls[gen.pos])
       IN  gen' = [pc |-> IF g1.exc = "ok" THEN "calls" ELSE "failed", pos |-> gen.pos + 1, g |-> g1]
    /\ UNCHANGED <<cgVars, capVars, reg>>

\* generateEquivalentProgram after the loop: endMain and finalFileCode
GenerateEnd ==
    /\ gen.pc = "calls"
    /\ gen.pos > Len(gen.g.tg.programExecution.functionCalls)
    /\ gen' = [gen EXCEPT !.pc = "done", !.g.out = @ \o finalFileCode(gen.g.tg)]
    /\ UNCHANGED <<cgVars, capVars, reg>>

GenNext ==
    \/ GenerateEquivalentProgram
    \/ GenerateCall
    \/ GenerateEnd

SpecGen == Init /\ [][GenNext]_vars

(***************************************************************************)
\* C1: constructing a LanguageObject (with a valid, positive id) of child type c in
\* {Module, Class, Instance} under a parent of type p in {None, Module, Class,
\* Instance} succeeds iff p is exactly one rank below c; every other pair raises
\* InvalidParentException.
C1_HierarchyInvariant ==
    (cgOp.op = "addLanguageObject" /\ cgOp.id > 0) =>
        /\ (cgOp.init = "ok") <=> (cgOp.parentLanguageType = cgOp.languageType - 1)
        /\ (cgOp.init # "ok") => (cgOp.init = "InvalidParentException")

\* C1 witness: an Instance offered as the parent of a Class was refused
C1_Witness ==
    /\ cgOp.op = "addLanguageObject"
    /\ cgOp.id > 0
    /\ cgOp.parentLanguageType = LT_INSTANCE
    /\ cgOp.languageType = LT_CLASS
    /\ cgOp.init = "InvalidParentException"

\* C4 (as claimed): after load(dump(P)) every call has the argument list of the
\* corresponding call of P: same length, and at every position the same
\* LanguageObject id and the same name.
C4_ArgumentsRoundTrip ==
    (cgOp.op = "dumpLoad" /\ cgRes = "ok") =>
        /\ Len(cgLoaded.functionCalls) = Len(cgPE.functionCalls)
        /\ \A c \in 1..Len(cgPE.functionCalls) :
            LET a1 == cgPE.functionCalls[c].argsList
                a2 == cgLoaded.functionCalls[c].argsList
            IN  /\ Len(a1) = Len(a2)
                /\ \A j \in 1..Len(a1) :
                    /\ a1[j].languageObject.id = a2[j].languageObject.id
                    /\ a1[j].name = a2[j].name

\* a stored call with a keyword argument before a positional one was dumped and loaded
C4_Witness ==
    /\ cgOp.op = "dumpLoad" /\ cgRes = "ok"
    /\ Len(cgPE.functionCalls) = 1
    /\ Len(cgPE.functionCalls[1].argsList) = 2
    /\ cgPE.functionCalls[1].argsList[1].name = "x"
    /\ cgPE.functionCalls[1].argsList[2].name = NoneName
    /\ cgLoaded.functionCalls[1].argsList[1].name = NoneName

\* C5: addLanguageObject with an object whose id is already in the store raises
\* DuplicatedLanguageObjectIdException and leaves the store as it was.
C5_DuplicateIdRejected ==
    [][(/\ cgOp'.op = "addLanguageObject"
        /\ cgOp'.init = "ok"
        /\ has_key(cgPE.languageObjects, cgOp'.id))
       => (/\ cgRes' = "DuplicatedLanguageObjectIdException"
           /\ cgPE' = cgPE)]_vars

\* C5 witness: a duplicate id was offered and refused while the store holds objects
C5_Witness ==
    /\ cgOp.op = "addLanguageObject"
    /\ cgRes = "DuplicatedLanguageObjectIdException"
    /\ has_key(cgPE.languageObjects, cgOp.id)
    /\ cgPE.languageObjects[cgOp.id].languageType # cgOp.languageType

(***************************************************************************)
(* Claims on the capture sessions (Spec, SpecEvents)                       *)
(***************************************************************************)
\* the coordinator's state of the current session
Thread == annotator.annotatorThread
Calls == annotator.programExecution.functionCalls
Objects == annotator.programExecution.languageObjects
Queue == annotator.callGraphQueue

\* the annotation ids whose call was entered and has not been exited: the call they
\* map to has no returned object yet (an exit always sets one, None included)
Pending ==
    {k \in DOMAIN Thread.annotationIdToFuncCall :
        Calls[Thread.annotationIdToFuncCall[k]].returnedObject = NoneObj}

\* the identity key of a value that is not a container
KeyOf(obj) == getPythonUniqueId(obj, obj.ty)

\* the coordinator processes an ENTER_FUNCTION / EXIT_FUNCTION item in this step
RunEnter == Run /\ Head(Queue).type = ENTER_FUNCTION
RunExit == Run /\ Head(Queue).type = EXIT_FUNCTION

\* C2, state part: the identity index is one-to-one and its values are exactly the
\* ids of the stored LanguageObjects, so the store holds one object per key.
C2_OnePerKey ==
    Thread.alive # "none" =>
        LET idx == Thread.pythonIdToLanguageObjectId
        IN  /\ \A k1, k2 \in DOMAIN idx : idx[k1] = idx[k2] => k1 = k2
            /\ {idx[k] : k \in DOMAIN idx} = DOMAIN Objects

\* C2, step part: a processed event keeps every key on its object and every stored
\* object as it is; a callee, positional argument or returned value whose key was
\* already seen resolves to the existing object.
C2_Resolve ==
    Run =>
        LET idx == Thread.pythonIdToLanguageObjectId
            item == Head(Queue)
            calls2 == annotator'.programExecution.functionCalls
            objects2 == annotator'.programExecution.languageObjects
            idx2 == annotator'.annotatorThread.pythonIdToLanguageObjectId
            aCall == calls2[Len(calls2)]
        IN  /\ \A k \in DOMAIN idx :
                   /\ k \in DOMAIN idx2 /\ idx2[k] = idx[k]
                   /\ objects2[idx[k]] = Objects[idx[k]]
            /\ Cardinality(DOMAIN objects2) - Cardinality(DOMAIN Objects)
                   = Cardinality(DOMAIN idx2) - Cardinality(DOMAIN idx)
            /\ item.type = ENTER_FUNCTION =>
                   /\ KeyOf(item.obj) \in DOMAIN idx => aCall.callee.id = idx[KeyOf(item.obj)]
                   /\ \A i \in DOMAIN item.args :
                          (item.args[i].ty \notin {"list", "tuple"}
                              /\ KeyOf(item.args[i]) \in DOMAIN idx) =>
                              aCall.argsList[i].languageObject.id = idx[KeyOf(item.args[i])]
            /\ (item.type = EXIT_FUNCTION /\ item.annotationId \in DOMAIN Thread.annotationIdToFuncCall
                    /\ KeyOf(item.returnedObj) \in DOMAIN idx) =>
                   /\ objects2 = Objects
                   /\ calls2[Thread.annotationIdToFuncCall[item.annotationId]].returnedObject.id
                          = idx[KeyOf(item.returnedObj)]

\* C2: within one capture session, resolving a value whose identity key was already
\* seen returns the existing LanguageObject and creates none; after any sequence of
\* processed events the store holds exactly one LanguageObject per identity key, so
\* a value captured in two calls is one LanguageObject referenced by both.
C2_Dedup == []C2_OnePerKey /\ [][C2_Resolve]_vars

\* two calls of add(4, 5) were processed: both reference the same objects for 4 and 5
C2_Witness ==
    /\ Thread.alive # "none"
    /\ Len(Calls) = 2
    /\ Calls[1].functionName = "add" /\ Calls[2].functionName = "add"
    /\ Calls[1].argsList[1].languageObject.id = Calls[2].argsList[1].languageObject.id
    /\ Calls[1].returnedObject # NoneObj
    /\ Calls[2].returnedObject = Calls[1].returnedObject

\* the orders in which a loaded document can list the keyword names of a call
CaptureKeyOrders == {<<"aList">>}

\* C3, the comparison: same language, same LanguageObject ids with equal type,
\* declaration type, declaration code and parent id, same calls in the same order
\* with equal id, callee id, name, method kind, level, returned object id and flag.
SameGraph(p, q) ==
    /\ p.language = q.language
    /\ DOMAIN p.languageObjects = DOMAIN q.languageObjects
    /\ \A i \in DOMAIN p.languageObjects :
           LET o1 == p.languageObjects[i]
               o2 == q.languageObjects[i]
           IN  /\ o1.id = o2.id /\ o1.languageType = o2.languageType
               /\ o1.declarationType = o2.declarationType
               /\ o1.declarationCode = o2.declarationCode
               /\ o1.parent.id = o2.parent.id
    /\ Len(p.functionCalls) = Len(q.functionCalls)
    /\ \A i \in DOMAIN p.functionCalls :
           LET c1 == p.functionCalls[i]
               c2 == q.functionCalls[i]
           IN  /\ c1.id = c2.id /\ c1.callee.id = c2.callee.id
               /\ c1.functionName = c2.functionName /\ c1.methodType = c2.methodType
               /\ c1.level = c2.level /\ c1.returnedObject.id = c2.returnedObject.id
               /\ c1.threwException = c2.threwException

C6_Ids ==
    Thread.alive # "none" =>
        /\ \A i \in DOMAIN Calls : Calls[i].id = i
        /\ \A i, j \in DOMAIN Thread.created : i < j => Thread.created[i] < Thread.created[j]
        /\ {Thread.created[i] : i \in DOMAIN Thread.created} = DOMAIN Objects

\* C6, step part: a dequeued FunctionEntered event appends its call, with the
\* next id, at the end of the call sequence.
C6_Append ==
    RunEnter =>
        LET calls2 == annotator'.programExecution.functionCalls
        IN  /\ Len(calls2) = Len(Calls) + 1
            /\ SubSeq(calls2, 1, Len(Calls)) = Calls
            /\ calls2[Len(calls2)].id = Len(Calls) + 1
            /\ calls2[Len(calls2)].functionName = Head(Queue).funcName

\* C6: whatever the number of producers, FunctionCall ids are 1, 2, 3, ... in the
\* order the FunctionEntered events are dequeued, the calls are stored in that order,
\* LanguageObject ids are strictly increasing in creation order, no id is used twice.
C6_IdOrder == []C6_Ids /\ [][C6_Append]_vars

\* two producer threads have a call in flight each, and both calls were recorded
C6_Witness ==
    /\ stacks[1] # <<>> /\ stacks[2] # <<>>
    /\ Thread.alive = "running"
    /\ Len(Calls) = 2
    /\ Len(Thread.created) > 6

\* a producer step: a wrapper calls functionStarted or functionEnded
ProducerStep ==
    \/ \E t \in Threads, s \in Sites, annotationId \in AnnotationIds :
           NewFunctionEnter(t, s, annotationId)
    \/ \E t \in Threads : NewFunctionExit(t)

\* C7: functionStarted and functionEnded only append one event to the queue and
\* leave the ProgramExecution, the id counters, the pending-call map, the identity
\* index and the level counter unchanged; within a session these change only in the
\* coordinator's event-processing step.
C7_ProducersOnlyEnqueue ==
    [][/\ ProducerStep =>
              /\ Len(annotator'.callGraphQueue) = Len(Queue) + 1
              /\ SubSeq(annotator'.callGraphQueue, 1, Len(Queue)) = Queue
              /\ annotator'.callGraphQueue[Len(Queue) + 1].type \in {ENTER_FUNCTION, EXIT_FUNCTION}
              /\ annotator'.programExecution = annotator.programExecution
              /\ annotator'.annotatorThread = annotator.annotatorThread
       /\ (counters'.resets = counters.resets
             /\ (annotator'.programExecution # annotator.programExecution
                   \/ annotator'.annotatorThread # annotator.annotatorThread)) => Run]_vars

\* a producer has enqueued the events of a whole call and the coordinator has
\* recorded nothing yet
C7_Witness ==
    /\ Thread.alive = "running"
    /\ Len(Queue) >= 2
    /\ Queue[1].type = ENTER_FUNCTION
    /\ Queue[2].type = EXIT_FUNCTION
    /\ Calls = <<>>
    /\ Objects = <<>>

\* C8: every FunctionCall is appended when its FunctionEntered event is processed,
\* with no returned object and threwException false; its returned object and flag
\* are set exactly once, when its FunctionExited event is processed; no later event
\* of the session changes it.
C8_CallLifecycle ==
    [][(counters'.resets = counters.resets /\ Thread.alive # "none") =>
          LET calls2 == annotator'.programExecution.functionCalls
          IN  /\ Len(calls2) >= Len(Calls)
              /\ Len(calls2) > Len(Calls) =>
                     /\ RunEnter
                     /\ Len(calls2) = Len(Calls) + 1
                     /\ calls2[Len(calls2)].returnedObject = NoneObj
                     /\ calls2[Len(calls2)].threwException = FALSE
              /\ \A i \in DOMAIN Calls :
                     calls2[i] # Calls[i] =>
                         /\ RunExit
                         /\ has_key(Thread.annotationIdToFuncCall, Head(Queue).annotationId)
                         /\ Thread.annotationIdToFuncCall[Head(Queue).annotationId] = i
                         /\ Calls[i].returnedObject = NoneObj
                         /\ calls2[i] = [Calls[i] EXCEPT
                                            !.returnedObject = calls2[i].returnedObject,
                                            !.threwException = calls2[i].threwException]]_vars

\* C9: processing a FunctionExited event whose annotation id has no pending call
\* (never entered, or entered and already exited) ends the coordinator with an
\* error and modifies no FunctionCall.
C9_ExitWithoutPendingFails ==
    [][(RunExit /\ Head(Queue).annotationId \notin Pending) =>
          /\ annotator'.annotatorThread.alive = "crashed"
          /\ annotator'.programExecution.functionCalls = Calls]_vars

\* C10: the graph is dumped only after the coordinator has processed the
\* END_ANNOTATION item of the session that is ending, and every item before it: no
\* END_ANNOTATION item is left in the queue when the dump reads the graph.
C10_DumpAfterEndProcessed ==
    [][DumpProgramExecution =>
          /\ Thread.alive = "ended"
          /\ \A i \in DOMAIN Queue : Queue[i].type # END_ANNOTATION]_vars

\* a call was recorded, exited, and a second FunctionExited event with its annotation
\* id was processed without ending the coordinator: the level went down twice
C9_Witness ==
    /\ Thread.alive = "running"
    /\ Len(Calls) = 1
    /\ Pending = {}
    /\ Thread.currentFunctionLevel = MIN_LEVEL - 2

\* a second session was ended and dumped without a reset in between: its
\* END_ANNOTATION item is still in the queue after the dump
C10_Witness ==
    /\ callerPc = "idle"
    /\ dumpFile # NoneObj
    /\ counters.sessions = 2
    /\ Thread.alive = "ended"
    /\ \E i \in DOMAIN Queue : Queue[i].type = END_ANNOTATION

(***************************************************************************)
(* SpecFair: Spec with the AnnotatorThread scheduled fairly (a thread that *)
(* can take an item from its queue eventually does).                       *)
(***************************************************************************)
SpecFair == Init /\ [][Next]_vars /\ WF_vars(Run)

\* an END_ANNOTATION item is in the queue
EndEnqueued == \E i \in DOMAIN Queue : Queue[i].type = END_ANNOTATION

\* C11: under fair scheduling, once END_ANNOTATION has been enqueued the coordinator
\* eventually terminates having processed every item enqueued before it (no
\* END_ANNOTATION is left in the queue); it leaves its loop only by dequeuing
\* END_ANNOTATION; it takes the items in FIFO order and takes none while the queue
\* is empty.
C11_CoordinatorTerminates ==
    /\ (EndEnqueued /\ Thread.alive # "none") ~> (Thread.alive = "ended" /\ ~EndEnqueued)
    /\ [][(counters'.resets = counters.resets /\ Thread.alive = "running"
             /\ annotator'.annotatorThread.alive = "ended")
            => (Run /\ Head(Queue).type = END_ANNOTATION)]_vars
    /\ [][Run => (Queue # <<>> /\ annotator'.callGraphQueue = Tail(Queue))]_vars

\* the events of a whole call and the END_ANNOTATION of its session were enqueued
\* after the coordinator had terminated
C11_Witness ==
    /\ Thread.alive = "ended"
    /\ Len(Queue) = 3
    /\ Queue[1].type = ENTER_FUNCTION
    /\ Queue[2].type = EXIT_FUNCTION
    /\ Queue[3].type = END_ANNOTATION
    /\ callerPc = "idle"





\* C12: a startAnnotations call made while a session is active raises and changes
\* nothing (no function is replaced, no session starts); at no time is more than
\* one session started and not finished.
C12_SingleSession ==
    /\ [](counters.active <= 1 /\ (activeAnnotators <=> counters.active = 1))
    /\ [][(StartAnnotations /\ callerPc = "active")
            => (/\ UNCHANGED <<annotator, activeAnnotators, installed, callerPc>>
                /\ counters'.active = counters.active
                /\ counters'.refused = counters.refused + 1)]_vars

\* startAnnotations raised inside the with block of the active session
C12_Witness ==
    /\ callerPc = "active"
    /\ activeAnnotators
    /\ counters.refused = 1
    /\ counters.active = 1

\* C13: a session that starts (on an Annotator that was reset at least once) starts
\* with an empty ProgramExecution and the initial id counters, and when it finishes
\* every event enqueued before its END_ANNOTATION was processed.
C13_NewSessionFreshGraph ==
    /\ [][(StartAnnotations /\ callerPc = "idle" /\ callerPc' = "active" /\ counters.resets > 0)
            => (/\ annotator'.programExecution = ProgramExecution(PYTHON)
                /\ annotator'.annotatorThread.nextIdsMap = AnnotatorThreadInit.nextIdsMap)]_vars
    /\ [][(Join /\ counters.resets > 0) => ~EndEnqueued]_vars

\* a second session is active on the ProgramExecution that holds the calls of the
\* first one, and the thread that filled it has ended
C13_Witness ==
    /\ callerPc = "active"
    /\ counters.sessions = 2
    /\ counters.refused = 0
    /\ Thread.alive = "ended"
    /\ Calls # <<>>

\* the recorded calls that were entered and not exited (an exit always sets a
\* returned object, None included)
NotExited(functionCalls) ==
    {i \in DOMAIN functionCalls : functionCalls[i].returnedObject = NoneObj}

\* C14: the level recorded on a FunctionCall is the number of recorded calls entered
\* and not yet exited when it is entered; no recorded level is negative; when every
\* recorded call has exited the level counter has its initial value MIN_LEVEL - 1.
C14_Level ==
    /\ [](Thread.alive # "none" =>
            /\ \A i \in DOMAIN Calls : Calls[i].level >= MIN_LEVEL
            /\ (NotExited(Calls) = {} => Thread.currentFunctionLevel = MIN_LEVEL - 1))
    /\ [][RunEnter =>
            /\ Len(annotator'.programExecution.functionCalls) = Len(Calls) + 1
            /\ annotator'.programExecution.functionCalls[Len(Calls) + 1].level =
                   Cardinality(NotExited(Calls))]_vars

\* one call stack holds an outer and an inner call, both recorded and not exited,
\* with levels 0 and 1
C14_Witness ==
    /\ Len(stacks[1]) = 2 /\ stacks[2] = <<>>
    /\ Thread.alive = "running"
    /\ Len(Calls) = 2
    /\ NotExited(Calls) = {1, 2}
    /\ Calls[1].level = 0 /\ Calls[2].level = 1

\* the LanguageObject a value was resolved to after a step of the coordinator
ResolvedAfter(obj) ==
    annotator'.programExecution.languageObjects[
        annotator'.annotatorThread.pythonIdToLanguageObjectId[KeyOf(obj)]]

\* C15: when the annotated function raises, the wrapper enqueues an exit event with
\* threw = True and the exception, and the exception leaves the wrapper; when it
\* returns, the event has threw = False and the returned value. The coordinator
\* records the flag of the event on the call and, as returned object, the
\* LanguageObject of the event's value: for an exception an Instance whose parent is
\* the Class of the exception.
C15_Outcome ==
    /\ [][NewFunctionExit(1) =>
            LET site == Site(stacks[1][Len(stacks[1])].site)
                item == annotator'.callGraphQueue[Len(annotator'.callGraphQueue)]
            IN  /\ item.type = EXIT_FUNCTION
                /\ item.threw = site.raises
                /\ item.returnedObj = site.result
                /\ newFunctionOutcome(site).raised = IF site.raises THEN site.result ELSE PyNone]_vars
    /\ [][(RunExit /\ has_key(Thread.annotationIdToFuncCall, Head(Queue).annotationId)) =>
            LET item == Head(Queue)
                aCall == annotator'.programExecution.functionCalls[
                             Thread.annotationIdToFuncCall[item.annotationId]]
            IN  /\ aCall.threwException = item.threw
                /\ aCall.returnedObject = ResolvedAfter(item.returnedObj)
                /\ item.threw =>
                      /\ aCall.returnedObject.languageType = LT_INSTANCE
                      /\ aCall.returnedObject.parent.languageType = LT_CLASS
                      /\ aCall.returnedObject.parent.declarationCode =
                            asJsonString(PyStr(item.returnedObj.module \o "." \o item.returnedObj.cls))]_vars

\* the call of MyFunctions.quit() was recorded as a call that returned None
C15_Witness ==
    /\ Thread.alive = "running"
    /\ \E i \in DOMAIN Calls :
          /\ Calls[i].functionName = "quit"
          /\ Calls[i].returnedObject # NoneObj
          /\ ~Calls[i].threwException

\* the arguments of an ENTER_FUNCTION item that have no JSON form and were not
\* declared before
NewDummyArgs(item) ==
    {i \in DOMAIN item.args :
        /\ ~JsonSerializable(item.args[i])
        /\ item.args[i] # item.obj
        /\ ~has_key(Thread.pythonIdToLanguageObjectId, KeyOf(item.args[i]))}

\* C16: when the coordinator resolves an argument that has no JSON form and was not
\* declared before, the thread goes on running, the call of the event is recorded,
\* and the argument's LanguageObject is a Dummy whose parent is a Class.
C16_DummyNeverAborts ==
    [][(RunEnter /\ NewDummyArgs(Head(Queue)) # {}) =>
          /\ annotator'.annotatorThread.alive = "running"
          /\ Len(annotator'.programExecution.functionCalls) = Len(Calls) + 1
          /\ \A i \in NewDummyArgs(Head(Queue)) :
                /\ ResolvedAfter(Head(Queue).args[i]).declarationType = DT_DUMMY
                /\ ResolvedAfter(Head(Queue).args[i]).parent.languageType = LT_CLASS]_vars

\* the thread died on bar.f1(p) after str(NonAnnotatedClass) had been declared
C16_Witness ==
    /\ Thread.alive = "crashed"
    /\ has_key(Thread.pythonIdToLanguageObjectId,
               "ST:" \o pyStr(PyClass("MyFunctions", "NonAnnotatedClass")))
    /\ Calls = <<>> \/ Calls[Len(Calls)].functionName # "f1"

(***************************************************************************)
(* Code generation (SpecGen)                                               *)
(***************************************************************************)
\* the FunctionCalls of the loaded ProgramExecution, in recorded order, and the
\* ones generateEquivalentProgram has gone through
GenCalls == gen.g.tg.programExecution.functionCalls
GenCallsSeen == SubSeq(GenCalls, 1, gen.pos - 1)
GenOut == gen.g.out

\* the statements of one kind among what was written, in the order written
StatementsOfKind(out, kind) == SelectSeq(out, LAMBDA s : s.kind = kind)

\* the ids of the calls of a level (of every level for ALL_LEVELS), in recorded order
RECURSIVE CallIdsOfLevel(_, _)
CallIdsOfLevel(calls, L) ==
    IF calls = <<>> THEN <<>>
    ELSE (IF L = ALL_LEVELS \/ Head(calls).level = L THEN <<Head(calls).id>> ELSE <<>>)
         \o CallIdsOfLevel(Tail(calls), L)

\* C17: with a single level L the call statements written are, in recorded order,
\* one for each recorded FunctionCall of level L and none for another call; with
\* ALL_LEVELS they are one for every recorded call, in recorded order.
C17_LevelFilter ==
    gen.pc \in {"calls", "done"} =>
        [i \in DOMAIN StatementsOfKind(GenOut, "call") |-> StatementsOfKind(GenOut, "call")[i].call]
            = CallIdsOfLevel(GenCallsSeen, gen.g.searchLevel)

\* a generation of level 0 is over: of the three recorded calls, the second is of
\* level 1, and two call statements were written
C17_Witness ==
    /\ gen.pc = "done"
    /\ gen.g.searchLevel = 0
    /\ Len(GenCalls) = 3
    /\ GenCalls[2].level = 1
    /\ Len(StatementsOfKind(GenOut, "call")) = 2

\* the LanguageObjects this generation gave a name that stands for them in the
\* code: the instances represented by their variable
GenNamedIds ==
    {id \in DOMAIN gen.g.tg.idsToVariableInfo :
        /\ gen.g.tg.programExecution.languageObjects[id].languageType = LT_INSTANCE
        /\ gen.g.tg.idsToVariableInfo[id].useVarNameForRepr}
GenVarName(id) == gen.g.tg.idsToVariableInfo[id].varName

\* the FunctionCall a call statement was written for
GenCallOf(s) == GenCalls[CHOOSE i \in DOMAIN GenCalls : GenCalls[i].id = s.call]

\* s is the statement of the recorded constructor call of the object id
IsConstructorCallOf(s, id) ==
    /\ s.kind = "call"
    /\ GenCallOf(s).callee.id = id
    /\ GenCallOf(s).functionName = CONSTRUCTOR_SIGNATURE

\* s is the declaration statement of the object id: the statement that creates
\* its variable (a value, a default construction or the recorded constructor call)
DeclaresObject(s, id) ==
    \/ s.kind \in {"declare", "construct"} /\ s.lo = id
    \/ IsConstructorCallOf(s, id)

\* s refers to the object id by its variable, and is not its declaration
ReferencesObject(s, id) ==
    /\ s.kind \in {"call", "declare"}
    /\ ~DeclaresObject(s, id)
    /\ \E i \in DOMAIN s.tokens : s.tokens[i] = GenVarName(id)

\* C18: for every LanguageObject that a written statement refers to, the
\* declaration statement of the object was written exactly once, and before the
\* first statement that refers to it.
C18_DeclaredOnceBeforeUse ==
    gen.pc \in {"calls", "done"} =>
        \A id \in GenNamedIds :
            /\ Cardinality({j \in DOMAIN GenOut : DeclaresObject(GenOut[j], id)}) <= 1
            /\ \A k \in DOMAIN GenOut :
                   ReferencesObject(GenOut[k], id) =>
                       \E j \in 1..(k - 1) : DeclaresObject(GenOut[j], id)

\* a generation is over in which a call statement refers to an object by its
\* variable and the declaration of the object was written before it
C18_Witness ==
    /\ gen.pc = "done"
    /\ \E id \in GenNamedIds : \E k \in DOMAIN GenOut :
           /\ GenOut[k].kind = "call"
           /\ ReferencesObject(GenOut[k], id)
           /\ \E j \in 1..(k - 1) : DeclaresObject(GenOut[j], id)

\* the ids of the declared instances whose declarationType is CONSTRUCTOR
GenConstructorIds ==
    {id \in DOMAIN gen.g.tg.idsToVariableInfo :
        /\ gen.g.tg.programExecution.languageObjects[id].languageType = LT_INSTANCE
        /\ gen.g.tg.programExecution.languageObjects[id].declarationType = DT_CONSTRUCTOR}

\* s is a construction statement that binds the object id to the variable name
BindsAtConstruction(s, id, name) ==
    /\ (s.kind = "construct" /\ s.lo = id) \/ IsConstructorCallOf(s, id)
    /\ Len(s.tokens) >= 2
    /\ s.tokens[1] = name
    /\ s.tokens[2] = " = "

\* the call statement s calls its function on the variable name
CallsOnVariable(s, name) ==
    \E i \in 1..(Len(s.tokens) - 2) :
        /\ s.tokens[i] = name
        /\ s.tokens[i + 1] = "."
        /\ s.tokens[i + 2] = GenCallOf(s).functionName

\* C19: every call statement on an instance declared by CONSTRUCTOR is its
\* recorded constructor call, which binds the variable of the object, or calls
\* on that variable after a construction statement bound the object to it; no
\* two LanguageObjects have the same variable name.
C19_OneVariablePerObject ==
    gen.pc \in {"calls", "done"} =>
        /\ \A k \in DOMAIN GenOut :
               (GenOut[k].kind = "call" /\ GenCallOf(GenOut[k]).callee.id \in GenConstructorIds) =>
                   LET id == GenCallOf(GenOut[k]).callee.id
                   IN  \/ BindsAtConstruction(GenOut[k], id, GenVarName(id))
                       \/ /\ CallsOnVariable(GenOut[k], GenVarName(id))
                          /\ \E j \in 1..(k - 1) : BindsAtConstruction(GenOut[j], id, GenVarName(id))
        /\ \A id1, id2 \in DOMAIN gen.g.tg.idsToVariableInfo :
               id1 # id2 => GenVarName(id1) # GenVarName(id2)

\* a generation is over in which the recorded constructor call bound an object
\* to its variable, a later statement calls on that variable, and another
\* instance has a variable name too
C19_Witness ==
    /\ gen.pc = "done"
    /\ \E id \in GenConstructorIds : \E j, k \in DOMAIN GenOut :
           /\ j < k
           /\ IsConstructorCallOf(GenOut[j], id)
           /\ BindsAtConstruction(GenOut[j], id, GenVarName(id))
           /\ GenOut[k].kind = "call"
           /\ GenCallOf(GenOut[k]).callee.id = id
           /\ CallsOnVariable(GenOut[k], GenVarName(id))
           /\ \E id2 \in GenNamedIds : id2 # id

\* the call as the code writes it outside an assertion: what is called, and its
\* recorded arguments (already declared, so nothing is declared again)
GenCalledTokens(aCall) == methodCall(gen.g.tg, aCall)
GenArgumentTokens(aCall) ==
    declareArgsList(gen.g.tg, aCall, aCall.argsList, 0, <<>>, <<>>).argsListStr

\* assertEqual(<recorded return value>, <the call>)
EqualityAssertion(aCall) ==
    <<"self.assertEqual", "(">> \o getObjectRepresentation(gen.g.tg, aCall.returnedObject)
    \o <<", ">> \o GenCalledTokens(aCall) \o <<"(">> \o GenArgumentTokens(aCall) \o <<")", ")">>

\* assertRaises(<class of the recorded exception>, <what is called>, <its arguments>)
RaisesAssertion(aCall) ==
    <<"self.assertRaises", "(", evalRepresentation(gen.g.tg, aCall.returnedObject.parent), ", ">>
    \o GenCalledTokens(aCall)
    \o (IF GenArgumentTokens(aCall) = <<>> THEN <<>> ELSE <<", ">> \o GenArgumentTokens(aCall))
    \o <<")">>

\* C20: in a unit test, the statement of every call that is not a constructor
\* call is one assertion: assertEqual of the recorded return value and the call
\* when the call did not throw, assertRaises of the class of the recorded
\* exception, the function called and the recorded arguments when it threw.
C20_UnitTestAssertions ==
    (gen.pc \in {"calls", "done"} /\ gen.g.tg.sourceType = UNIT_TEST) =>
        \A k \in DOMAIN GenOut :
            (GenOut[k].kind = "call"
             /\ GenCallOf(GenOut[k]).functionName # CONSTRUCTOR_SIGNATURE) =>
                /\ GenCallOf(GenOut[k]).returnedObject # NoneObj
                /\ GenOut[k].tokens =
                       IF GenCallOf(GenOut[k]).threwException
                       THEN RaisesAssertion(GenCallOf(GenOut[k]))
                       ELSE EqualityAssertion(GenCallOf(GenOut[k]))

\* a unit test was generated with an assertEqual and an assertRaises statement
C20_Witness ==
    /\ gen.pc = "done"
    /\ gen.g.tg.sourceType = UNIT_TEST
    /\ \E j, k \in DOMAIN GenOut :
           /\ GenOut[j].kind = "call" /\ ~GenCallOf(GenOut[j]).threwException
           /\ GenOut[j].tokens = EqualityAssertion(GenCallOf(GenOut[j]))
           /\ GenOut[k].kind = "call" /\ GenCallOf(GenOut[k]).threwException
           /\ GenOut[k].tokens = RaisesAssertion(GenCallOf(GenOut[k]))

(***************************************************************************)
(* SpecLoad: CallGraphSerializer.load on documents that were not written   *)
(* by dump: the languageTypes table, the parent ids and the ids of the     *)
(* calls are whatever the document says.                                   *)
(***************************************************************************)
\* Bounds of the documents
MaxDocId == 2
MaxDocObjects == 2
MaxDocCalls == 2

\* the table dump writes
ExpectedLanguageTypes ==
    [i \in 1..Len(LanguageTypes) |-> [id |-> LanguageTypes[i], name |-> asString(LanguageTypes[i])]]

\* the entries a table is made of: the ids 0..4 (4 is no LanguageType) and the
\* names of the LanguageTypes or another name
DocLanguageTypeEntries ==
    [id : 0..4, name : {asString(LanguageTypes[i]) : i \in 1..Len(LanguageTypes)} \cup {"Other"}]

\* the expected table in another order, with one entry replaced, removed or added
DocLanguageTypeTables ==
    {ExpectedLanguageTypes,
     [i \in 1..4 |-> ExpectedLanguageTypes[5 - i]]}
    \cup {[ExpectedLanguageTypes EXCEPT ![i] = e] : i \in 1..4, e \in DocLanguageTypeEntries}
    \cup {SubSeq(ExpectedLanguageTypes, 1, i - 1) \o SubSeq(ExpectedLanguageTypes, i + 1, 4) : i \in 1..4}
    \cup {Append(ExpectedLanguageTypes, e) : e \in DocLanguageTypeEntries}

\* the LanguageObject records of a document
DocObjectRecords ==
    [id : 1..MaxDocId, languageTypeId : {LT_MODULE, LT_CLASS, LT_INSTANCE},
     declarationType : {DT_FIXED_VALUE}, declarationCode : {PyInt(5)}, parentId : 0..MaxDocId]

\* the arguments of a call record: none, one positional or one named
DocArguments ==
    {[args |-> <<>>, kargs |-> <<>>]}
    \cup {[args |-> <<a>>, kargs |-> <<>>] : a \in 0..MaxDocId}
    \cup {[args |-> <<>>, kargs |-> [n \in {"x"} |-> a]] : a \in 0..MaxDocId}

\* the FunctionCall records of a document
DocCallRecords ==
    [id : 1..MaxDocCalls, calleeId : 0..MaxDocId, funcName : {"fun"}, methodType : {MT_METHOD},
     level : {0}, returnedObject : 0..MaxDocId, threwException : {FALSE},
     arguments : DocArguments]

\* the call graphs of the documents: no call, one call, or a call and a second
\* one that differs from it by its id at most
DocCallGraphs ==
    {<<>>} \cup {<<c>> : c \in DocCallRecords}
    \cup {<<c, [c EXCEPT !.id = i]>> : c \in DocCallRecords, i \in 1..MaxDocCalls}

\* the documents: any table with two valid objects and no call, or the expected
\* table with any objects and calls
Documents ==
    {[language |-> PYTHON, languageTypes |-> t,
      languageObjects |-> <<[id |-> 1, languageTypeId |-> LT_MODULE, declarationType |-> DT_FIXED_VALUE,
                             declarationCode |-> PyInt(5), parentId |-> 0]>>,
      callGraph |-> <<>>] : t \in DocLanguageTypeTables}
    \cup {[language |-> PYTHON, languageTypes |-> ExpectedLanguageTypes,
           languageObjects |-> o, callGraph |-> g] :
             o \in SeqsUpTo(DocObjectRecords, MaxDocObjects), g \in DocCallGraphs}

\* loaded = aSerializer.load(fp), fp holding a document; a run of the loader
\* reads one file
CgLoad ==
    /\ cgOp.op = "init"
    /\ \E doc \in Documents :
           LET l == loadProgramExecutionFromJsonMap(doc, <<"x", "y">>)
           IN  /\ cgOp' = [op |-> "load", doc |-> doc]
               /\ cgRes' = l.exc
               /\ cgLoaded' = IF l.exc = "ok" THEN l.pe ELSE NoneObj
    /\ UNCHANGED <<cgPE, capVars, gen, reg>>

SpecLoad == Init /\ [][CgLoad]_vars

(***************************************************************************)
(* Claims on load (SpecLoad)                                               *)
(***************************************************************************)
\* the table is exactly the expected set of (id, name) pairs
IsExpectedTable(t) ==
    /\ Len(t) = Len(ExpectedLanguageTypes)
    /\ {t[i] : i \in DOMAIN t} = {ExpectedLanguageTypes[i] : i \in DOMAIN ExpectedLanguageTypes}

\* C21: load of a document whose languageTypes table is not exactly the expected
\* set of (id, name) pairs raises CallGraphLoadException and returns no
\* ProgramExecution.
C21_LanguageTypesChecked ==
    (cgOp.op = "load" /\ ~IsExpectedTable(cgOp.doc.languageTypes)) =>
        (cgRes = "CallGraphLoadException" /\ cgLoaded = NoneObj)

\* a document whose table has a wrong name was refused with CallGraphLoadException
C21_Witness ==
    /\ cgOp.op = "load"
    /\ Len(cgOp.doc.languageTypes) = 4
    /\ \E i \in 1..4 : cgOp.doc.languageTypes[i] = [id |-> LT_CLASS, name |-> "Other"]
    /\ cgRes = "CallGraphLoadException"
    /\ cgLoaded = NoneObj

\* the ids of the LanguageObject records of the loaded document
DocObjectIds ==
    {cgOp.doc.languageObjects[i].id : i \in DOMAIN cgOp.doc.languageObjects}

\* an object record names a parent that no earlier record declares
DocHasForwardParent ==
    \E i \in DOMAIN cgOp.doc.languageObjects :
        /\ cgOp.doc.languageObjects[i].parentId # 0
        /\ ~\E j \in 1..(i - 1) :
               cgOp.doc.languageObjects[j].id = cgOp.doc.languageObjects[i].parentId

\* a call record names a callee or an argument that is no object of the
\* document, or a returned object (0 stands for none) that is no object of it
DocHasUnresolvedCallReference ==
    \E i \in DOMAIN cgOp.doc.callGraph :
        LET aCall == cgOp.doc.callGraph[i]
        IN  \/ aCall.calleeId \notin DocObjectIds
            \/ \E k \in DOMAIN aCall.arguments.args : aCall.arguments.args[k] \notin DocObjectIds
            \/ \E n \in DOMAIN aCall.arguments.kargs : aCall.arguments.kargs[n] \notin DocObjectIds
            \/ (aCall.returnedObject # 0 /\ aCall.returnedObject \notin DocObjectIds)

\* every call of the loaded ProgramExecution has its callee and its arguments in
\* the store
LoadedCallsResolved ==
    \A i \in DOMAIN cgLoaded.functionCalls :
        LET aCall == cgLoaded.functionCalls[i]
        IN  /\ aCall.callee # NoneObj
            /\ has_key(cgLoaded.languageObjects, aCall.callee.id)
            /\ \A k \in DOMAIN aCall.argsList :
                   /\ aCall.argsList[k].languageObject # NoneObj
                   /\ has_key(cgLoaded.languageObjects, aCall.argsList[k].languageObject.id)

\* C22: load fails on a parentId that names no earlier record and on a calleeId,
\* argument id or returnedObject id that names no loaded object; a
\* ProgramExecution that load returns has no call with a missing callee or
\* argument.
C22_ReferencesResolved ==
    (cgOp.op = "load" /\ IsExpectedTable(cgOp.doc.languageTypes)) =>
        /\ (DocHasForwardParent \/ DocHasUnresolvedCallReference) => cgRes # "ok"
        /\ cgRes = "ok" => LoadedCallsResolved

\* a call whose argument id names no object of the document made load fail
C22_Witness ==
    /\ cgOp.op = "load"
    /\ Len(cgOp.doc.languageObjects) = 1
    /\ Len(cgOp.doc.callGraph) = 1
    /\ cgOp.doc.callGraph[1].calleeId \in DocObjectIds
    /\ cgOp.doc.callGraph[1].arguments.args # <<>>
    /\ cgOp.doc.callGraph[1].arguments.args[1] \notin DocObjectIds
    /\ cgOp.doc.callGraph[1].arguments.args[1] # 0
    /\ cgRes = "KeyError"

\* C23: a FunctionCall whose id is the id of a registered call is refused, so the
\* calls of a ProgramExecution have pairwise distinct ids, also after load: a
\* document with two call records of one id is not loaded.
C23_CallIdsDistinct ==
    cgOp.op = "load" =>
        /\ (\E i, j \in DOMAIN cgOp.doc.callGraph :
                i # j /\ cgOp.doc.callGraph[i].id = cgOp.doc.callGraph[j].id) => cgRes # "ok"
        /\ cgRes = "ok" =>
               \A i, j \in DOMAIN cgLoaded.functionCalls :
                   i # j => cgLoaded.functionCalls[i].id # cgLoaded.functionCalls[j].id

\* a document with two resolvable call records of one id was given to load
C23_Witness ==
    /\ cgOp.op = "load"
    /\ Len(cgOp.doc.callGraph) = 2
    /\ cgOp.doc.callGraph[1].id = cgOp.doc.callGraph[2].id
    /\ cgOp.doc.callGraph[1].calleeId \in DocObjectIds
    /\ ~DocHasForwardParent
    /\ ~DocHasUnresolvedCallReference
    /\ cgRes = "ok"
    /\ Len(cgLoaded.functionCalls) = 2

(***************************************************************************)
(* Claims on the order of the dumped records (SpecCG)                      *)
(***************************************************************************)
\* in the records of a document every parentId names an earlier record
ParentsPrecede(langObjects) ==
    \A i \in DOMAIN langObjects :
        langObjects[i].parentId # 0 =>
            \E j \in 1..(i - 1) : langObjects[j].id = langObjects[i].parentId

\* C28: in the records dump writes for a ProgramExecution built through
\* addLanguageObject the record of every object's parent precedes the object's
\* record, and load(dump(P)) does not fail on a parent that is a later record.
C28_DumpParentsFirst ==
    LET d == dumpProgramExecutionAsJsonMap(cgPE)
    IN  /\ d.exc = "ok" => ParentsPrecede(d.doc.languageObjects)
        /\ cgOp.op = "dumpLoad" => cgRes # "KeyError"

\* a ProgramExecution with a parent and its child was dumped and loaded
C28_Witness ==
    /\ cgOp.op = "dumpLoad"
    /\ \E id \in DOMAIN cgPE.languageObjects :
           /\ cgPE.languageObjects[id].parent # NoneObj
           /\ cgPE.languageObjects[id].parent.id > id
    /\ cgRes = "KeyError"

(***************************************************************************)
(* Claims on the resolution of arguments (SpecArguments)                   *)
(***************************************************************************)
IsContainer(obj) == obj.ty \in {"list", "tuple", "dict"}

\* a container with its children replaced by the ids that the identity index idx
\* gives them (a value that is no container is left as it is)
RECURSIVE ChildIds(_, _)
ChildIds(idx, obj) ==
    LET idOf(v) == idx[getPythonUniqueId(ChildIds(idx, v), v.ty)]
    IN  IF obj.ty = "list" THEN PyList([i \in DOMAIN obj.items |-> idOf(obj.items[i])])
        ELSE IF obj.ty = "tuple" THEN PyTuple([i \in DOMAIN obj.items |-> idOf(obj.items[i])])
        ELSE IF obj.ty = "dict"
        THEN PyDict([k \in {idOf(obj.items[i][1]) : i \in DOMAIN obj.items} |->
                        LET last == CHOOSE i \in DOMAIN obj.items :
                                        /\ idOf(obj.items[i][1]) = k
                                        /\ \A j \in DOMAIN obj.items :
                                               idOf(obj.items[j][1]) = k => j <= i
                        IN  idOf(obj.items[last][2])])
        ELSE obj

\* the ids in a container of ids
IdsIn(c) ==
    IF c.ty = "dict" THEN DOMAIN c.map \cup {c.map[k] : k \in DOMAIN c.map}
    ELSE {c.ids[i] : i \in DOMAIN c.ids}

\* the containers in a value: the value itself and the containers in its children
RECURSIVE ContainersIn(_)
ContainersIn(obj) ==
    IF obj.ty \in {"list", "tuple"}
    THEN {obj} \cup UNION {ContainersIn(obj.items[i]) : i \in DOMAIN obj.items}
    ELSE IF obj.ty = "dict"
    THEN {obj} \cup UNION {ContainersIn(obj.items[i][1]) \cup ContainersIn(obj.items[i][2]) :
                              i \in DOMAIN obj.items}
    ELSE {}

\* the values passed to the call of an ENTER_FUNCTION item
ItemArguments(item) ==
    {item.args[i] : i \in DOMAIN item.args} \cup {item.kargs[i][2] : i \in DOMAIN item.kargs}

\* C26, the step: once an entered call is recorded, every container among its
\* arguments (and in them) is resolved to a LanguageObject whose declarationCode is
\* the sequence (the key id to value id map) of its children's ids; these ids are
\* in the store and smaller than the id of the container's object.
C26_Step ==
    (RunEnter /\ Len(annotator'.programExecution.functionCalls) = Len(Calls) + 1) =>
        LET objects2 == annotator'.programExecution.languageObjects
            idx2 == annotator'.annotatorThread.pythonIdToLanguageObjectId
        IN  \A arg \in ItemArguments(Head(Queue)) : \A obj \in ContainersIn(arg) :
                LET c == ChildIds(idx2, obj)
                    lo == objects2[idx2[getPythonUniqueId(c, obj.ty)]]
                IN  /\ lo.declarationCode = asJsonString(c)
                    /\ IdsIn(c) \subseteq DOMAIN objects2
                    /\ \A id \in IdsIn(c) : id < lo.id

\* C26: resolving a list, tuple or mapping resolves every element (every key and
\* value) before the container: the declarationCode of the container's
\* LanguageObject is the sequence (the map) of its children's ids in the
\* container's order, every such id is in the store and is smaller than the
\* container's id.
C26_ChildrenFirst == [][C26_Step]_vars

\* foo.f3(aList = [4, 5]) was recorded after add(4, 5) and myPrint("[4, 5]"): the
\* children of the list are the objects 4 and 5 and its identity key is the one of
\* the string
C26_Witness ==
    /\ Thread.alive = "running"
    /\ Len(Calls) = 3
    /\ Calls[1].functionName = "add"
    /\ Calls[2].functionName = "myPrint"
    /\ Calls[3].functionName = "f3"
    /\ Calls[1].argsList[1].languageObject.id = 4
    /\ Calls[1].argsList[2].languageObject.id = 5
    /\ Calls[3].argsList[Len(Calls[3].argsList)].languageObject
           = Calls[2].argsList[1].languageObject

\* a value with the values in it: the children of a list or tuple, the keys and
\* values of a dict
RECURSIVE ValuesIn(_)
ValuesIn(obj) ==
    IF obj.ty \in {"list", "tuple"}
    THEN {obj} \cup UNION {ValuesIn(obj.items[i]) : i \in DOMAIN obj.items}
    ELSE IF obj.ty = "dict"
    THEN {obj} \cup UNION {ValuesIn(obj.items[i][1]) \cup ValuesIn(obj.items[i][2]) :
                              i \in DOMAIN obj.items}
    ELSE {obj}

\* the values the coordinator resolves for an item of the queue
ItemValues(item) ==
    IF item.type = ENTER_FUNCTION
    THEN {item.obj} \cup UNION {ValuesIn(arg) : arg \in ItemArguments(item)}
    ELSE ValuesIn(item.returnedObj)

\* C27, the step: of the values resolved for a processed event, one that had a
\* LanguageObject keeps it unchanged; a newly declared Instance that is the callee
\* of the entered call is a Constructor; any other newly declared value is a
\* FixedValue if json can write it and a Dummy if not; the classes and modules
\* declared as parents are FixedValues (their names).
C27_Step ==
    (/\ Run
     /\ Head(Queue).type \in {ENTER_FUNCTION, EXIT_FUNCTION}
     /\ annotator'.annotatorThread.alive = "running"
     /\ Head(Queue).type = ENTER_FUNCTION =>
            Len(annotator'.programExecution.functionCalls) = Len(Calls) + 1) =>
        LET item == Head(Queue)
            objects2 == annotator'.programExecution.languageObjects
            idx2 == annotator'.annotatorThread.pythonIdToLanguageObjectId
        IN  /\ \A id \in DOMAIN Objects : objects2[id] = Objects[id]
            /\ \A id \in DOMAIN objects2 \ DOMAIN Objects :
                   objects2[id].languageType # LT_INSTANCE =>
                       objects2[id].declarationType = DT_FIXED_VALUE
            /\ \A v \in ItemValues(item) :
                   LET c == ChildIds(idx2, v)
                       lo == objects2[idx2[getPythonUniqueId(c, v.ty)]]
                       isCallee == item.type = ENTER_FUNCTION /\ v = item.obj
                   IN  lo.id \notin DOMAIN Objects =>
                           lo.declarationType =
                               IF lo.languageType = LT_INSTANCE /\ isCallee THEN DT_CONSTRUCTOR
                               ELSE IF lo.languageType # LT_INSTANCE \/ JsonSerializable(c)
                                    THEN DT_FIXED_VALUE
                               ELSE DT_DUMMY

\* C27: a newly declared Instance gets declarationType Constructor exactly when it
\* is resolved as the callee of the FunctionEntered event being processed; any other
\* newly declared value gets FixedValue when it has a literal form and Dummy
\* otherwise; a value that was already declared keeps the declarationType of its
\* first resolution whatever role it plays later.
C27_DeclarationType == [][C27_Step]_vars

\* foo was first resolved as the argument of myPrint(foo), a Dummy, and is then the
\* callee of a recorded call, still a Dummy; the callee of a third call is a
\* Constructor
C27_Witness ==
    /\ Thread.alive = "running"
    /\ Len(Calls) = 2
    /\ Calls[1].functionName = "myPrint"
    /\ Calls[1].argsList[1].languageObject.declarationType = DT_DUMMY
    /\ Calls[2].functionName = "f3"
    /\ Calls[2].callee = Calls[1].argsList[1].languageObject
    /\ \E id \in DOMAIN Objects :
           Objects[id].declarationType = DT_FIXED_VALUE /\ Objects[id].languageType = LT_INSTANCE

\* the positions of the default-construction statements of the object id, and of
\* the call statements whose receiver (callee) is the object id
ConstructionsOf(id) == {j \in DOMAIN GenOut : GenOut[j].kind = "construct" /\ GenOut[j].lo = id}
CallsOnReceiver(id) ==
    {k \in DOMAIN GenOut : GenOut[k].kind = "call" /\ GenCallOf(GenOut[k]).callee.id = id}
FirstCallOn(id) == CHOOSE k \in CallsOnReceiver(id) : \A k2 \in CallsOnReceiver(id) : k <= k2

\* the Instances that are the receiver of a recorded call
GenReceivers ==
    {GenCalls[i].callee.id : i \in {i \in DOMAIN GenCalls : GenCalls[i].callee.languageType = LT_INSTANCE}}

\* the default construction of a receiver: written once at most, before a call on
\* the receiver that is not a constructor call, and never for a receiver whose
\* first written call is its constructor call
DefaultConstructionRule(id) ==
    /\ Cardinality(ConstructionsOf(id)) <= 1
    /\ \A j \in ConstructionsOf(id) :
           /\ CallsOnReceiver(id) # {}
           /\ j < FirstCallOn(id)
           /\ GenCallOf(GenOut[FirstCallOn(id)]).methodType # MT_CONSTRUCTOR
    /\ (CallsOnReceiver(id) # {}
            /\ GenCallOf(GenOut[FirstCallOn(id)]).methodType = MT_CONSTRUCTOR) =>
           ConstructionsOf(id) = {}

\* C29 (as claimed): for each Instance receiver the default construction is written
\* once at most, immediately before the first written call on the receiver (it is
\* the statement just before that call), only if that call is not a constructor
\* call, and never for a receiver whose first written call is its constructor.
C29_DefaultConstructionAdjacent ==
    gen.pc \in {"calls", "done"} =>
        \A id \in GenReceivers :
            /\ DefaultConstructionRule(id)
            /\ \A j \in ConstructionsOf(id) : j = FirstCallOn(id) - 1

\* C29 (amended): for each Instance receiver the default construction is written
\* once at most, before the first written call on the receiver with nothing but
\* declarations of objects between the two, only if that call is not a
\* constructor call, and never for a receiver whose first written call is its
\* constructor.
C29_DefaultConstruction ==
    gen.pc \in {"calls", "done"} =>
        \A id \in GenReceivers :
            /\ DefaultConstructionRule(id)
            /\ \A j \in ConstructionsOf(id) :
                   \A m \in (j + 1)..(FirstCallOn(id) - 1) : GenOut[m].kind = "declare"

\* a generation is over in which a receiver was default-constructed, a declaration
\* stands between the construction and the first call on it, and another call on
\* it follows
C29_Witness ==
    /\ gen.pc = "done"
    /\ \E id \in GenReceivers : \E j \in ConstructionsOf(id) :
           /\ FirstCallOn(id) > j + 1
           /\ Cardinality(CallsOnReceiver(id)) = 2

\* a generation is over in which the first call on a receiver is its constructor
\* call and a second call on it was written
C29_WitnessConstructor ==
    /\ gen.pc = "done"
    /\ \E id \in GenReceivers :
           /\ Cardinality(CallsOnReceiver(id)) = 2
           /\ GenCallOf(GenOut[FirstCallOn(id)]).methodType = MT_CONSTRUCTOR

\* CppTokensGenerator.mustSkipArgument
cppMustSkipArgument(aFunctionCall, arg, argCount) == FALSE

\* the i-th recorded argument of a call is its implicit receiver: the cls of a
\* class-method call, or the self of a method or constructor call on an instance
IsImplicitReceiver(aCall, i) ==
    /\ i = 1
    /\ \/ aCall.methodType = MT_CLASS_METHOD
       \/ /\ aCall.methodType \in {MT_METHOD, MT_CONSTRUCTOR}
          /\ aCall.callee.languageType = LT_INSTANCE
          /\ aCall.argsList[1].languageObject.id = aCall.callee.id

\* one recorded argument as it is written: name = value for a keyword argument
WrittenArgument(arg) ==
    (IF arg.name # NoneName THEN <<arg.name, " = ">> ELSE <<>>)
    \o getObjectRepresentation(gen.g.tg, arg.languageObject)

\* the recorded arguments from the i-th on, without the implicit receiver, in
\* recorded order and separated by commas
RECURSIVE ExplicitArguments(_, _)
ExplicitArguments(aCall, i) ==
    IF i > Len(aCall.argsList) THEN <<>>
    ELSE IF IsImplicitReceiver(aCall, i) THEN ExplicitArguments(aCall, i + 1)
    ELSE WrittenArgument(aCall.argsList[i])
         \o (IF i < Len(aCall.argsList) THEN <<", ">> ELSE <<>>)
         \o ExplicitArguments(aCall, i + 1)

EndsWith(tokens, suffix) ==
    /\ Len(suffix) <= Len(tokens)
    /\ SubSeq(tokens, Len(tokens) - Len(suffix) + 1, Len(tokens)) = suffix

\* the tokens of a line that are not its punctuation: what is called, and the
\* names and the values of the arguments
Content(tokens) == SelectSeq(tokens, LAMBDA t : t \notin {"(", ")", ", "})

\* the statement s calls aCall with the argument list args: what is called and
\* then the arguments, as the parenthesised list after what is called when the
\* statement is not an assertRaises (which forwards what is called and the list)
CallsWithArguments(s, aCall, args) ==
    /\ EndsWith(Content(s.tokens), Content(GenCalledTokens(aCall) \o args))
    /\ s.tokens[1] # "self.assertRaises" =>
           \E posfix \in {<<>>, <<")">>} :
               EndsWith(s.tokens, GenCalledTokens(aCall) \o <<"(">> \o args \o <<")">> \o posfix)

\* C30: the Python generator writes, as the argument list of every call statement,
\* the recorded arguments of the call in recorded order, a keyword argument as
\* name = value, without the implicit receiver (the recorded first argument that
\* is the self of a method call on an instance or the cls of a class-method call)
\* and with every other argument; the C++ generator skips no argument.
C30_ArgumentsWritten ==
    gen.pc \in {"calls", "done"} =>
        /\ \A k \in DOMAIN GenOut :
               GenOut[k].kind = "call" =>
                   CallsWithArguments(GenOut[k], GenCallOf(GenOut[k]),
                                      ExplicitArguments(GenCallOf(GenOut[k]), 1))
        /\ \A c \in DOMAIN GenCalls : \A i \in DOMAIN GenCalls[c].argsList :
               /\ ~cppMustSkipArgument(GenCalls[c], GenCalls[c].argsList[i].languageObject, i - 1)
               /\ mustSkipArgument(GenCalls[c], GenCalls[c].argsList[i].languageObject, i - 1)
                      <=> IsImplicitReceiver(GenCalls[c], i)

\* a generation wrote the statements of a class-method call without its cls, of a
\* method call with a keyword argument without its self, and of a static-method
\* call and a module function call with every recorded argument
C30_Witness ==
    /\ gen.pc = "done"
    /\ \E k \in DOMAIN GenOut :
           /\ GenOut[k].kind = "call"
           /\ GenCallOf(GenOut[k]).methodType = MT_CLASS_METHOD
           /\ Len(GenCallOf(GenOut[k]).argsList) = 2
           /\ ExplicitArguments(GenCallOf(GenOut[k]), 1) = <<"5">>
           /\ EndsWith(GenOut[k].tokens, <<"classMethod1", "(", "5", ")">>)
    /\ \E k \in DOMAIN GenOut :
           /\ GenOut[k].kind = "call"
           /\ GenCallOf(GenOut[k]).functionName = "f3"
           /\ Len(GenCallOf(GenOut[k]).argsList) = 2
           /\ EndsWith(GenOut[k].tokens, <<".", "f3", "(", "aList", " = ", "var1", ")">>)

\* a static-method call and a module function call keep every recorded argument
C30_WitnessNoReceiver ==
    /\ gen.pc = "done"
    /\ \E k \in DOMAIN GenOut :
           /\ GenOut[k].kind = "call"
           /\ GenCallOf(GenOut[k]).methodType = MT_STATIC_METHOD
           /\ EndsWith(GenOut[k].tokens, <<"static1", "(", "5", ")">>)
    /\ \E k \in DOMAIN GenOut :
           /\ GenOut[k].kind = "call"
           /\ GenCallOf(GenOut[k]).functionName = "add"
           /\ EndsWith(GenOut[k].tokens, <<"add", "(", "4", ", ", "5", ")">>)

(***************************************************************************)
(* Registration and restoration of the annotated functions (SpecAnnotate)  *)
(***************************************************************************)
MaxRegistrations == 3
MaxRegSessions == 2
MaxRegResets == 1
MaxRegCalls == 2

\* self.oldFuncs[objAndFuncName] = value
oldFuncsSet(oldFuncs, key, value) ==
    [k \in DOMAIN oldFuncs \cup {key} |-> IF k = key THEN value ELSE oldFuncs[k]]

\* Annotator.annotate(MyFunctions, *methodNames): _annotateMethod appends every
\* name given, or every routine of the module when none is given
annotate(r, methodNames) ==
    [r EXCEPT !.funcsToAnnotate =
        @ \o (IF methodNames # <<>> THEN methodNames ELSE RegRoutines)]

\* Annotator.startAnnotations, the loop over funcsToAnnotate from entry i on:
\* getattr, setattr of the new function, the old one kept in oldFuncs
RECURSIVE replaceFunctions(_, _)
replaceFunctions(r, i) ==
    IF i > Len(r.funcsToAnnotate) THEN r
    ELSE LET funcName == r.funcsToAnnotate[i]
             fun == r.attr[funcName]
         IN  replaceFunctions([r EXCEPT !.attr[funcName] = fun + 1,
                                        !.oldFuncs = oldFuncsSet(@, funcName, fun)], i + 1)

\* Annotator.restoreFunctions, from entry i on: setattr of oldFuncs[objAndFuncName]
RECURSIVE restoreFunctions(_, _)
restoreFunctions(r, i) ==
    IF i > Len(r.funcsToAnnotate) THEN r
    ELSE LET funcName == r.funcsToAnnotate[i]
         IN  restoreFunctions([r EXCEPT !.attr[funcName] = r.oldFuncs[funcName]], i + 1)

\* annotator.resetForNewAnnotations(), outside a session: new containers, a new
\* queue and a new, started AnnotatorThread
RegReset ==
    /\ callerPc = "idle"
    /\ reg.resets < MaxRegResets
    /\ reg' = [reg EXCEPT !.oldFuncs = <<>>, !.funcsToAnnotate = <<>>, !.queue = 0,
                          !.thread = "running", !.resets = @ + 1,
                          !.op = [name |-> "resetForNewAnnotations", exc |-> "ok",
                                  enqueued |-> 0, session |-> reg.sessions]]
    /\ UNCHANGED <<cgVars, capVars, gen>>

\* annotator.annotate(MyFunctions, *methodNames), outside a session
RegAnnotate ==
    /\ callerPc = "idle"
    /\ \E methodNames \in {<<>>} \cup {<<f>> : f \in RegNames} :
           /\ Len(annotate(reg, methodNames).funcsToAnnotate) <= MaxRegistrations
           /\ reg' = [annotate(reg, methodNames) EXCEPT
                         !.op = [name |-> "annotate", exc |-> "ok", enqueued |-> 0,
                                 session |-> reg.sessions]]
    /\ UNCHANGED <<cgVars, capVars, gen>>

\* Annotator.startAnnotations (__enter__): raises when a session is open
RegStart ==
    /\ callerPc \in {"idle", "active"}
    /\ reg.sessions < MaxRegSessions
    /\ IF activeAnnotators
       THEN /\ reg' = [reg EXCEPT !.op = [name |-> "startAnnotations",
                                          exc |-> "Only one annotator instance allowed.",
                                          enqueued |-> 0, session |-> reg.sessions + 1]]
            /\ UNCHANGED <<activeAnnotators, callerPc>>
       ELSE /\ activeAnnotators' = TRUE
            /\ reg' = [replaceFunctions(reg, 1) EXCEPT
                          !.op = [name |-> "startAnnotations", exc |-> "ok",
                                  enqueued |-> 0, session |-> reg.sessions + 1]]
            /\ callerPc' = "active"
    /\ UNCHANGED <<cgVars, gen, annotator, installed, stacks, dumpFile, counters>>

\* a call of MyFunctions.<funcName>(...): each newFunction around the original
\* puts an ENTER_FUNCTION and an EXIT_FUNCTION item; a running AnnotatorThread
\* takes the items off the queue
RegCall ==
    /\ reg.calls < MaxRegCalls
    /\ \E funcName \in RegNames :
           reg' = [reg EXCEPT !.calls = @ + 1,
                              !.queue = IF reg.thread = "running" THEN 0
                                        ELSE @ + 2 * reg.attr[funcName],
                              !.op = [name |-> "call", exc |-> "ok",
                                      enqueued |-> 2 * reg.attr[funcName],
                                      session |-> reg.sessions]]
    /\ UNCHANGED <<cgVars, capVars, gen>>

\* Annotator.finishAnnotations (__exit__): the flag is cleared, END_ANNOTATION is
\* put, join returns once the thread has processed the queue and ended (at once
\* for a thread that has ended, AttributeError for None), and restoreFunctions
\* runs in the finally clause
RegFinish ==
    /\ callerPc = "active"
    /\ activeAnnotators' = FALSE
    /\ callerPc' = "idle"
    /\ reg' = [restoreFunctions(reg, 1) EXCEPT
                  !.queue = IF reg.thread = "running" THEN 0 ELSE @ + 1,
                  !.thread = IF reg.thread = "none" THEN "none" ELSE "ended",
                  !.sessions = @ + 1,
                  !.op = [name |-> "finishAnnotations",
                          exc |-> IF reg.thread = "none" THEN "AttributeError" ELSE "ok",
                          enqueued |-> 1, session |-> reg.sessions + 1]]
    /\ UNCHANGED <<cgVars, gen, annotator, installed, stacks, dumpFile, counters>>

NextAnnotate ==
    \/ RegReset
    \/ RegAnnotate
    \/ RegStart
    \/ RegCall
    \/ RegFinish

SpecAnnotate == Init /\ [][NextAnnotate]_vars

\* the function names registered, and whether one is registered twice
Registered == {reg.funcsToAnnotate[i] : i \in DOMAIN reg.funcsToAnnotate}
RegisteredTwice ==
    \E i, j \in DOMAIN reg.funcsToAnnotate : i < j /\ reg.funcsToAnnotate[i] = reg.funcsToAnnotate[j]

\* a session of this Annotator has ended and none is open
SessionEnded == callerPc = "idle" /\ reg.sessions > 0 /\ reg.op.name # "resetForNewAnnotations"

\* C24: once a capture session has ended, every registered function is bound to
\* its original implementation again, whatever annotate calls registered it: a
\* call of it puts no item on the queue, and a further session over the same
\* registrations starts and ends without an exception.
C24_RestoredAfterFinish ==
    /\ (callerPc = "idle" /\ reg.sessions > 0) =>
           \A f \in Registered : reg.attr[f] = Original
    /\ (callerPc = "idle" /\ reg.sessions > 0 /\ reg.op.name = "call") =>
           reg.op.enqueued = 0
    /\ (reg.thread # "none" /\ reg.op.session > 1
        /\ \/ reg.op.name = "finishAnnotations"
           \/ reg.op.name = "startAnnotations" /\ callerPc = "active"
                  /\ reg.op.exc # "Only one annotator instance allowed.") =>
           reg.op.exc = "ok"

\* annotate(MyFunctions, "add") twice, a session, and after it a call of add that
\* put two items on the queue: add is bound to a newFunction
C24_Witness ==
    /\ callerPc = "idle"
    /\ reg.sessions = 1
    /\ reg.funcsToAnnotate = <<"add", "add">>
    /\ reg.attr["add"] = Original + 1
    /\ reg.op.name = "call"
    /\ reg.op.enqueued = 2

(***************************************************************************)
(* The generated program run under a new capture (SpecRecapture)           *)
(***************************************************************************)
\* MyFunctions: the number of arguments the constructor of a class requires
\* (ClassWithConstructor.__init__(self, x, y); the other classes define none)
RequiredConstructorArguments(className) ==
    IF className = "MyFunctions.ClassWithConstructor" THEN 2 ELSE 0

\* the variable names of the generated program
GenVarNames ==
    {gen.g.tg.idsToVariableInfo[id].varName : id \in DOMAIN gen.g.tg.idsToVariableInfo}

\* the variable a line binds (var = ...) and the variables it reads
AssignedVariable(s) ==
    IF Len(s.tokens) >= 2 /\ s.tokens[2] = " = " /\ s.tokens[1] \in GenVarNames
    THEN {s.tokens[1]} ELSE {}
UsedVariables(s) ==
    {s.tokens[i] : i \in (IF AssignedVariable(s) # {} THEN 3 ELSE 1)..Len(s.tokens)}
        \cap GenVarNames

\* what a capture records of a call: the function name, the callee (a module or
\* a class by its name, an instance by its class), and of every argument its
\* name, its class and its literal form
RecordedObject(lo) ==
    IF lo.languageType = LT_INSTANCE
    THEN [languageType |-> LT_INSTANCE, class |-> lo.parent.declarationCode,
          code |-> IF lo.declarationType = DT_FIXED_VALUE THEN lo.declarationCode ELSE "null"]
    ELSE [languageType |-> lo.languageType, class |-> lo.declarationCode, code |-> "null"]
RecordedCall(aCall) ==
    [functionName |-> aCall.functionName,
     callee |-> RecordedObject(aCall.callee),
     args |-> [i \in DOMAIN aCall.argsList |->
                  [name |-> aCall.argsList[i].name,
                   object |-> RecordedObject(aCall.argsList[i].languageObject)]]]

\* the object the generated program passes for a recorded object: an instance of
\* dummy.Dummy where the code says dummy.Dummy('<class>'), else an object of the
\* recorded class (a variable) or the recorded literal
RerunObject(lo) ==
    IF lo.languageType = LT_INSTANCE /\ lo.declarationType = DT_DUMMY
    THEN [languageType |-> LT_INSTANCE, class |-> asJsonString(PyStr("code_cropper.dummy.Dummy")),
          code |-> "null"]
    ELSE RecordedObject(lo)

\* what the new capture records of the call the line of aCall makes
RerunCall(aCall) ==
    [functionName |-> aCall.functionName,
     callee |-> RerunObject(aCall.callee),
     args |-> [i \in DOMAIN aCall.argsList |->
                  [name |-> aCall.argsList[i].name,
                   object |-> RerunObject(aCall.argsList[i].languageObject)]]]

\* the call raises again: the function is the same and so are its arguments,
\* except that a Dummy accepts every operation (dummy.py) where the recorded
\* argument made the function raise
raisesAgain(aCall) ==
    /\ aCall.threwException
    /\ \A i \in DOMAIN aCall.argsList :
           aCall.argsList[i].languageObject.declarationType # DT_DUMMY

\* one line of the generated program, run by Python with the functions
\* annotated: NameError for a variable that is not bound, TypeError for a
\* constructor called without its arguments; a call is recorded by newFunction,
\* which raises what the function raised, and nothing catches it
runStatement(r, s) ==
    IF r.exc # "ok" THEN r
    ELSE IF ~(UsedVariables(s) \subseteq r.bound) THEN [r EXCEPT !.exc = "NameError"]
    ELSE IF s.kind = "construct"
    THEN IF RequiredConstructorArguments(s.tokens[3]) > 0
         THEN [r EXCEPT !.exc = "TypeError"]
         ELSE [r EXCEPT !.bound = @ \cup AssignedVariable(s)]
    ELSE IF s.kind = "declare" THEN [r EXCEPT !.bound = @ \cup AssignedVariable(s)]
    ELSE IF s.kind = "call"
    THEN IF raisesAgain(GenCallOf(s))
         THEN [r EXCEPT !.calls = Append(@, RerunCall(GenCallOf(s))), !.exc = "raised"]
         ELSE [r EXCEPT !.calls = Append(@, RerunCall(GenCallOf(s))),
                          !.bound = @ \cup AssignedVariable(s)]
    ELSE r

\* the lines of the program from the i-th on
RECURSIVE runProgram(_, _, _)
runProgram(r, out, i) ==
    IF i > Len(out) THEN r
    ELSE runProgram(runStatement(r, out[i]), out, i + 1)

\* the main file generated with level 0 is run with the same functions
\* annotated: the level-0 calls of the new capture are the calls its lines make
Recapture ==
    /\ gen.pc = "done"
    /\ gen.g.searchLevel = 0
    /\ gen.g.tg.sourceType = MAIN_FILE
    /\ gen' = [pc |-> "recaptured", pos |-> gen.pos, g |-> gen.g,
               rerun |-> runProgram([exc |-> "ok", bound |-> {}, calls |-> <<>>], gen.g.out, 1)]
    /\ UNCHANGED <<cgVars, capVars, reg>>

NextRecapture ==
    \/ GenerateEquivalentProgram
    \/ GenerateCall
    \/ GenerateEnd
    \/ Recapture

SpecRecapture == Init /\ [][NextRecapture]_vars

\* the level-0 calls of the original capture, as recorded
OriginalLevel0 ==
    LET calls == SelectSeq(GenCalls, LAMBDA aCall : aCall.level = 0)
    IN  [i \in DOMAIN calls |-> RecordedCall(calls[i])]

\* C25: the program generated with level 0 from a capture, run under a new
\* capture, makes the level-0 calls of the original capture: the same callee,
\* function name and arguments, in the same order.
C25_RecaptureReproduces ==
    gen.pc = "recaptured" => gen.rerun.calls = OriginalLevel0

\* the generated program was run and stopped at its first line of code: the
\* default construction of a ClassWithConstructor raised TypeError, and none of
\* the two level-0 calls of the original capture was made
C25_Witness ==
    /\ gen.pc = "recaptured"
    /\ gen.rerun.exc = "TypeError"
    /\ gen.rerun.calls = <<>>
    /\ Len(OriginalLevel0) = 2

\* the queue q2 is the queue q1 with the items put since: nothing was taken
OnlyPut(q1, q2) == Len(q1) <= Len(q2) /\ SubSeq(q2, 1, Len(q1)) = q1

\* C31: once the AnnotatorThread has raised while it processed an item (an
\* invalid parent, a duplicate id, an EXIT_FUNCTION without its call), it
\* processes no further item of that session: until resetForNewAnnotations makes
\* a new thread, nothing is taken from the queue and the thread and the
\* ProgramExecution stay as they are.
C31_Step ==
    annotator.annotatorThread.alive = "crashed" =>
        \/ annotator' = resetForNewAnnotations(annotator)
        \/ /\ annotator'.annotatorThread = annotator.annotatorThread
           /\ annotator'.programExecution = annotator.programExecution
           /\ OnlyPut(annotator.callGraphQueue, annotator'.callGraphQueue)
C31_NoEventAfterViolation == [][C31_Step]_vars

\* the thread has raised and an item put after that waits in the queue
C31_Witness ==
    /\ annotator.annotatorThread.alive = "crashed"
    /\ annotator.callGraphQueue # <<>>
    /\ Head(annotator.callGraphQueue).type = ENTER_FUNCTION


\* C32: with producers that put, for each call, an ENTER_FUNCTION and then an
\* EXIT_FUNCTION item with the same annotation id (ids distinct among the calls
\* in flight), in every interleaving, every EXIT_FUNCTION the AnnotatorThread
\* processes finds its call, that call has no outcome yet, it is the one call the
\* step gives an outcome, and no KeyError ends the thread.
C32_Step ==
    RunExit =>
        LET id == Head(annotator.callGraphQueue).annotationId
            th == annotator.annotatorThread
            calls == annotator.programExecution.functionCalls
            calls2 == annotator'.programExecution.functionCalls
        IN  /\ has_key(th.annotationIdToFuncCall, id)
            /\ calls[th.annotationIdToFuncCall[id]].returnedObject = NoneObj
            /\ annotator'.annotatorThread.alive # "crashed" =>
                   /\ calls2[th.annotationIdToFuncCall[id]].returnedObject # NoneObj
                   /\ \A j \in DOMAIN calls :
                          j # th.annotationIdToFuncCall[id] => calls2[j] = calls[j]
regeneratePrologKeep(g) ==
    [generateProlog(g.tg.programExecution, g.searchLevel, g.tg.sourceType)
        EXCEPT !.tg.idsToVariableInfo = g.tg.idsToVariableInfo,
               !.tg.nextInstanceIndex = g.tg.nextInstanceIndex,
               !.constructedObjectIds = g.constructedObjectIds]

\* generateEquivalentProgram up to the loop, on the CodeGenerator that has written
\* g: createTokensGenerator makes a new TokensGenerator from self.programExecution_
regenerateProlog(g) ==
    generateProlog(g.tg.programExecution, g.searchLevel, g.tg.sourceType)

\* generateEquivalentProgram: the loop over the calls from the i-th on, then
\* endMain and finalFileCode
RECURSIVE generateCalls(_, _)
generateCalls(g, i) ==
    IF g.exc # "ok" THEN g
    ELSE IF i > Len(g.tg.programExecution.functionCalls)
    THEN [g EXCEPT !.out = @ \o finalFileCode(g.tg)]
    ELSE Bind(generateCall(g, g.tg.programExecution.functionCalls[i]), LAMBDA g1 :
             generateCalls(g1, i + 1))

\* aCodeGenerator.generateEquivalentProgram(fp2, searchLevel, sourceType), the
\* second call on one CodeGenerator with the arguments of the first
GenerateAgain ==
    /\ gen.pc = "done"
    /\ gen' = [pc |-> "regenerated", pos |-> gen.pos, g |-> gen.g,
               again |-> generateCalls(regenerateProlog(gen.g), 1)]
    /\ UNCHANGED <<cgVars, capVars, reg>>

NextRegenerate ==
    \/ GenerateEquivalentProgram
    \/ GenerateCall
    \/ GenerateEnd
    \/ GenerateAgain

SpecRegenerate == Init /\ [][NextRegenerate]_vars

\* C33: a call of generateEquivalentProgram starts from an empty idsToVariableInfo_,
\* index counters at 0 and no constructed object, no step of it changes the
\* ProgramExecution of the CodeGenerator, and the second call on one CodeGenerator
\* with the same searchLevel and sourceType writes the text the first one wrote.
C33_Step ==
    /\ gen'.pc = "calls" /\ gen.pc # "calls" =>
           /\ gen'.g.constructedObjectIds = {}
           /\ gen'.g.tg.nextInstanceIndex = 0
           /\ \A id \in DOMAIN gen'.g.tg.idsToVariableInfo :
                  gen'.g.tg.programExecution.languageObjects[id].languageType
                      \in {LT_MODULE, LT_CLASS}
    /\ gen.pc = "calls" /\ gen'.pc \in {"calls", "done"} =>
           gen'.g.tg.programExecution = gen.g.tg.programExecution
    /\ gen'.pc = "regenerated" =>
           /\ gen'.again.exc = "ok"
           /\ gen'.again.out = gen.g.out
           /\ gen'.again.tg.programExecution = gen.g.tg.programExecution
           /\ regenerateProlog(gen.g).constructedObjectIds = {}
           /\ regenerateProlog(gen.g).tg.nextInstanceIndex = 0
MaxReuseCalls == 3

\* the calls with the first instance, with the second one, and without any
FirstAllocationSites == {"f3", "myPrintFoo"}
SecondAllocationSites == {"f3Again", "myPrintFooAgain"}

\* nothing refers to the first instance any more: no call with it is running and
\* no queue item holds it (the item the AnnotatorThread took last is the
\* EXIT_FUNCTION of a call that returned None), so del foo frees it
Collected ==
    /\ stacks[1] = <<>>
    /\ annotator.callGraphQueue = <<>>

\* the wrapper is entered by the first call (with foo), the second (with the new
\* instance) or the third (MyFunctions.add) of the program
ReuseEnter(s, annotationId) ==
    /\ \/ counters.calls = 0 /\ s \in FirstAllocationSites
       \/ counters.calls = 1 /\ s \in SecondAllocationSites /\ Collected
       \/ counters.calls = 2 /\ s = "add"
    /\ NewFunctionEnterUpTo(1, s, annotationId, MaxReuseCalls)

NextReuse ==
    \/ ResetForNewAnnotations
    \/ Annotate
    \/ StartAnnotations
    \/ FinishAnnotations
    \/ Join
    \/ DumpProgramExecution
    \/ \E s \in FirstAllocationSites \cup SecondAllocationSites \cup {"add"},
          annotationId \in AnnotationIds : ReuseEnter(s, annotationId)
    \/ NewFunctionExit(1)
    \/ Run

SpecReuse == Init /\ [][NextReuse]_vars

\* C34: in one session two distinct instances are never resolved to the same
\* LanguageObject, also when the second is allocated at the address of the first:
\* the ENTER_FUNCTION of the only call made with the second instance gets, for
\* that instance as callee or as argument, a LanguageObject that was not in the
\* store before.
C34_Step ==
    (RunEnter /\ annotator'.annotatorThread.alive # "crashed") =>
        LET item == Head(Queue)
            aCall == annotator'.programExecution.functionCalls[
                         Len(annotator'.programExecution.functionCalls)]
        IN  /\ item.obj = Foo2 => aCall.callee.id \notin DOMAIN Objects
            /\ \A i \in DOMAIN item.args :
                   item.args[i] = Foo2 => aCall.argsList[i].languageObject.id \notin DOMAIN Objects
C34_DistinctInstances == [][C34_Step]_vars

\* both instances were resolved in one session and the call made with the second
\* has the LanguageObject of the first as callee
C34_Witness ==
    /\ annotator.programExecution # NoneObj
    /\ Len(Calls) = 2
    /\ Calls[1].functionName = "f3"
    /\ Calls[2].functionName = "f3"
    /\ Calls[1].callee.id = Calls[2].callee.id
    /\ counters.calls = 2

\* a FunctionCall without its outcome, which the EXIT_FUNCTION branch sets in place
WithoutOutcome(aCall) == [aCall EXCEPT !.returnedObject = NoneObj, !.threwException = FALSE]

\* C35: during a session nothing is taken from the graph: after every item the
\* AnnotatorThread processes, every LanguageObject of the store is still there,
\* unchanged, and the calls recorded before are the first calls of the new
\* sequence, in the same order (the same calls: only their outcome can be set).
C35_Step ==
    Run =>
        /\ \A id \in DOMAIN Objects :
               /\ id \in DOMAIN annotator'.programExecution.languageObjects
               /\ annotator'.programExecution.languageObjects[id] = Objects[id]
        /\ Len(annotator'.programExecution.functionCalls) >= Len(Calls)
        /\ \A i \in DOMAIN Calls :
               WithoutOutcome(annotator'.programExecution.functionCalls[i]) = WithoutOutcome(Calls[i])
        /\ Head(Queue).type # EXIT_FUNCTION =>
               SubSeq(annotator'.programExecution.functionCalls, 1, Len(Calls)) = Calls
C35_GraphOnlyGrows == [][C35_Step]_vars

\* two calls were recorded one after the other, the first is finished, the
\* second was added behind it with objects of its own
C35_Witness ==
    /\ annotator.programExecution # NoneObj
    /\ Len(Calls) >= 2
    /\ Calls[1].returnedObject # NoneObj
    /\ Calls[2].returnedObject = NoneObj
    /\ Calls[1].functionName # Calls[2].functionName
    /\ Cardinality(DOMAIN Objects) >= 6

\* C36: in every state of a session, every LanguageObject of the store with a
\* parent has that parent in the store, under a smaller id; a Module has no
\* parent, the parent of a Class is a Module and the parent of an Instance is a
\* Class, so every parent chain ends at a Module after two steps at most.
C36_ParentChain ==
    annotator.programExecution # NoneObj =>
        \A id \in DOMAIN Objects :
            LET lo == Objects[id]
            IN  /\ lo.id = id
                /\ lo.languageType \in {LT_MODULE, LT_CLASS, LT_INSTANCE}
                /\ lo.languageType = LT_MODULE => lo.parent = NoneObj
                /\ lo.languageType # LT_MODULE =>
                       /\ lo.parent # NoneObj
                       /\ lo.parent.languageType = lo.languageType - 1
                       /\ lo.parent.id \in DOMAIN Objects
                       /\ Objects[lo.parent.id] = lo.parent
                       /\ lo.parent.id < id

\* the store holds Instances of two classes of two modules, and the
\* AnnotatorThread has raised while it processed an item
C36_Witness ==
    /\ annotator.programExecution # NoneObj
    /\ annotator.annotatorThread.alive = "crashed"
    /\ \E i, j \in DOMAIN Objects :
           /\ Objects[i].languageType = LT_INSTANCE
           /\ Objects[j].languageType = LT_INSTANCE
           /\ Objects[i].parent.parent # Objects[j].parent.parent

\* C37: every Module and every Class of a graph that was captured, dumped and
\* loaded has the declaration type FixedValue, which is what
\* _calculateModuleVariableInfo and _calculateClassVariableInfo assert when the
\* generator declares them.
C37_ModulesAndClassesFixed ==
    gen.pc \in {"calls", "done"} =>
        \A id \in DOMAIN gen.g.tg.programExecution.languageObjects :
            LET lo == gen.g.tg.programExecution.languageObjects[id]
            IN  lo.languageType \in {LT_MODULE, LT_CLASS} =>
                    /\ lo.declarationType = DT_FIXED_VALUE
                    /\ id \in DOMAIN gen.g.tg.idsToVariableInfo

\* the generator has written the program of a graph in which a class is the
\* callee of a call (a class method) and a module the callee of another
C37_Witness ==
    /\ gen.pc = "done"
    /\ \E i \in DOMAIN GenCalls : GenCalls[i].callee.languageType = LT_CLASS
    /\ \E i \in DOMAIN GenCalls : GenCalls[i].callee.languageType = LT_MODULE

(***************************************************************************)
(* SpecDummy: programs whose values without a JSON form are a direct       *)
(* argument (bar.f1(p)), an element of a list argument (processList([p]))  *)
(* or a returned value (noParamsFunction()) are captured and generated.    *)
(***************************************************************************)
DummySites == {"f1", "processListP", "noParamsFunction", "add"}

\* CodeGenerator(dumpFile).generateEquivalentProgram(fp, searchLevel, sourceType)
\* up to the loop over the calls, for a program of one or two calls of DummySites
GenerateDummyProgram ==
    /\ gen = NoGeneration
    /\ \E first \in DummySites, second \in DummySites \cup {"none"},
          searchLevel \in GenLevels, sourceType \in GeneratedSourceTypes :
          gen' = [pc |-> "calls", pos |-> 1,
                  g |-> generateProlog(
                            CodeGeneratorInit(dumpProgramExecutionAsJsonMap(
                                captureProgram(first, "none", second))),
                            searchLevel, sourceType)]
    /\ UNCHANGED <<cgVars, capVars, reg>>

NextDummy ==
    \/ GenerateDummyProgram
    \/ GenerateCall
    \/ GenerateEnd

SpecDummy == Init /\ [][NextDummy]_vars

\* the statements written so far that hold a dummy.Dummy(...) expression
DummyStatements ==
    {i \in DOMAIN GenOut : \E j \in DOMAIN GenOut[i].tokens : GenOut[i].tokens[j] = "dummy.Dummy"}

\* C38: whenever the generated text holds a dummy.Dummy(...) expression, for a
\* Dummy that is a direct argument, an element of a container argument or a
\* returned value, the prolog holds "from code_cropper import dummy".
C38_DummyImported ==
    (gen.pc \in {"calls", "done"} /\ DummyStatements # {}) =>
        \E i \in DOMAIN GenOut : GenOut[i] = declareDummyClass(gen.g.tg)

\* a unit test was written whose only Dummy is the value noParamsFunction
\* returned, compared in an assertEqual
C38_Witness ==
    /\ gen.pc = "done"
    /\ gen.g.tg.sourceType = UNIT_TEST
    /\ DummyStatements # {}
    /\ \A i \in DOMAIN GenCalls : GenCalls[i].functionName = "noParamsFunction"

\* the Dummy of a written text is an element of a list argument
C38_WitnessElement ==
    /\ gen.pc = "done"
    /\ DummyStatements # {}
    /\ \A i \in DOMAIN GenCalls : GenCalls[i].functionName = "processList"

(***************************************************************************)
(* SpecStartFails: as SpecAnnotate, and annotate can also be given the     *)
(* name of a function MyFunctions does not have.                           *)
(***************************************************************************)
\* a name that is no attribute of MyFunctions: getattr raises AttributeError
NoSuchFunction == "noSuchFunction"

\* Annotator.startAnnotations, the loop in the try clause from entry i on, up to
\* the first getattr that raises
RECURSIVE replaceFunctionsOrRaise(_, _)
replaceFunctionsOrRaise(r, i) ==
    IF i > Len(r.funcsToAnnotate) THEN [exc |-> "ok", r |-> r]
    ELSE IF r.funcsToAnnotate[i] \notin DOMAIN r.attr THEN [exc |-> "AttributeError", r |-> r]
    ELSE LET funcName == r.funcsToAnnotate[i]
             fun == r.attr[funcName]
         IN  replaceFunctionsOrRaise([r EXCEPT !.attr[funcName] = fun + 1,
                                               !.oldFuncs = oldFuncsSet(@, funcName, fun)], i + 1)

\* Annotator.restoreFunctions from entry i on: self.oldFuncs[objAndFuncName] is
\* outside the try clause of the loop, a missing key raises KeyError
RECURSIVE restoreFunctionsOrRaise(_, _)
restoreFunctionsOrRaise(r, i) ==
    IF i > Len(r.funcsToAnnotate) THEN [exc |-> "ok", r |-> r]
    ELSE IF r.funcsToAnnotate[i] \notin DOMAIN r.oldFuncs THEN [exc |-> "KeyError", r |-> r]
    ELSE LET funcName == r.funcsToAnnotate[i]
         IN  restoreFunctionsOrRaise([r EXCEPT !.attr[funcName] = r.oldFuncs[funcName]], i + 1)

\* Annotator.startAnnotations: the exception that leaves it, the registrations
\* and Annotator.activeAnnotators afterwards
startAnnotationsOrRaise(r, active) ==
    IF active
    THEN [exc |-> "Only one annotator instance allowed.", r |-> r, activeAnnotators |-> active]
    ELSE LET replaced == replaceFunctionsOrRaise(r, 1)
             restored == restoreFunctionsOrRaise(replaced.r, 1)
         IN  IF replaced.exc = "ok"
             THEN [exc |-> "ok", r |-> replaced.r, activeAnnotators |-> TRUE]
             ELSE [exc |-> IF restored.exc # "ok" THEN restored.exc ELSE replaced.exc,
                   r |-> restored.r, activeAnnotators |-> TRUE]

\* annotator.annotate(MyFunctions, *methodNames), outside a session
RegAnnotateAny ==
    /\ callerPc = "idle"
    /\ \E methodNames \in {<<>>} \cup {<<f>> : f \in RegNames \cup {NoSuchFunction}} :
           /\ Len(annotate(reg, methodNames).funcsToAnnotate) <= MaxRegistrations
           /\ reg' = [annotate(reg, methodNames) EXCEPT
                         !.op = [name |-> "annotate", exc |-> "ok", enqueued |-> 0,
                                 session |-> reg.sessions]]
    /\ UNCHANGED <<cgVars, capVars, gen>>

\* annotator.startAnnotations(): a session is open afterwards if it returned
RegStartOrRaise ==
    /\ callerPc \in {"idle", "active"}
    /\ reg.sessions < MaxRegSessions
    /\ LET started == startAnnotationsOrRaise(reg, activeAnnotators)
       IN  /\ activeAnnotators' = started.activeAnnotators
           /\ reg' = [started.r EXCEPT
                         !.op = [name |-> "startAnnotations", exc |-> started.exc,
                                 enqueued |-> 0, session |-> reg.sessions + 1]]
           /\ callerPc' = IF started.exc = "ok" THEN "active" ELSE callerPc
    /\ UNCHANGED <<cgVars, gen, annotator, installed, stacks, dumpFile, counters>>

NextStartFails ==
    \/ RegReset
    \/ RegAnnotateAny
    \/ RegStartOrRaise
    \/ RegCall
    \/ RegFinish

SpecStartFails == Init /\ [][NextStartFails]_vars

\* C39: Annotator.activeAnnotators is set only while a session is open: it is
\* clear after a startAnnotations that raised while it replaced the functions,
\* and startAnnotations raises 'Only one annotator instance allowed.' only when
\* a session is open.
C39_FlagOnlyInSession ==
    /\ activeAnnotators => callerPc = "active"
    /\ (reg.op.name = "startAnnotations"
        /\ reg.op.exc = "Only one annotator instance allowed.") => callerPc = "active"

\* startAnnotations has raised on the unknown name, the Annotator was reset, add
\* was registered, and the next startAnnotations was refused with no session open
C39_Witness ==
    /\ callerPc = "idle"
    /\ reg.sessions = 0
    /\ reg.resets = 1
    /\ reg.funcsToAnnotate = <<"add">>
    /\ reg.op.name = "startAnnotations"
    /\ reg.op.exc = "Only one annotator instance allowed."

\* C40: when the graph is dumped, every FunctionCall in it has its outcome (its
\* EXIT_FUNCTION item was processed), whatever the producer threads were doing
\* when the caller ended the session.
C40_Step ==
    (DumpProgramExecution /\ annotator.programExecution # NoneObj) =>
        \A i \in DOMAIN Calls : Calls[i].returnedObject # NoneObj
C40_AllCallsFinalized == [][C40_Step]_vars

\* the graph was dumped with a call that has no outcome: the thread ended at
\* END_ANNOTATION and the EXIT_FUNCTION of the call, put behind it, is left in
\* the queue
C40_Witness ==
    /\ callerPc = "idle"
    /\ dumpFile # NoneObj
    /\ annotator.programExecution # NoneObj
    /\ Thread.alive = "ended"
    /\ Len(Calls) = 1
    /\ Calls[1].returnedObject = NoneObj
    /\ Queue # <<>>
    /\ Head(Queue).type = EXIT_FUNCTION
    /\ \A t \in Threads : stacks[t] = <<>>

=============================================================================
